---- MODULE Spec2Model ----
(***************************************************************************)
(* Sanitizer policy resolution and variant splitting of cc/sanitize.go.    *)
(*                                                                         *)
(* A module is a compilation unit with static facts (ctx), a declared      *)
(* sanitize block (decl) and, once begin() has run, live properties        *)
(* (sanitize.Properties).  Tri-state *bool fields are the strings "nil",   *)
(* "true" and "false".                                                     *)
(***************************************************************************)
EXTENDS Integers, Sequences, FiniteSets, TLC

VARIABLES
    phase,      \* position of the build pipeline
    mctx,       \* module id -> module facts and the configuration it sees
    decl,       \* module id -> declared SanitizeUserProps
    copies,     \* copy id -> the live state of that materialized module copy
    errors,     \* module id -> sequence of ModuleErrorf messages
    begun,      \* module id -> number of begin() calls made on it
    firstRun,   \* module id -> sanitize.Properties left by the first begin()
    edges,      \* declared dependencies [src, dst, tag] between module ids
    links,      \* resolved dependencies [src, dst, tag] between copy ids
    pass,       \* index in TransitionOrder of the split pass being run
    done,       \* module ids whose step of the current phase has run
    staticLibs, \* sanitizer -> the names added to its sanitizerStaticLibsMap
    called,     \* the latest per-sanitizer query: function, argument, outcome
    adding,     \* caller id -> position of its sanitizerStaticLibsMap.add call
    libsMapLock, \* the caller holding libsMapLock, 0 when it is free
    makeVars    \* the <<key, value>> pairs exportToMake handed to Make

vars == <<phase, mctx, decl, copies, errors, begun, firstRun, edges, links,
          pass, done, staticLibs, called, adding, libsMapLock, makeVars>>

\* the variables the build pipeline itself never writes
apart == <<called, adding, libsMapLock, makeVars>>

(***************************************************************************)
(* Bounds of the model.                                                    *)
(***************************************************************************)
\* number of inputs (declared options, module facts, configuration entries)
\* that differ from the plain device arm64 module with an empty sanitize block
MaxInputs == 2

(***************************************************************************)
(* *bool helpers (proptools.Bool, proptools.BoolPtr).                      *)
(***************************************************************************)
Nil == "nil"

Bool(p) == p = "true"

BoolPtr(b) == IF b THEN "true" ELSE "false"

Range(seq) == {seq[i] : i \in 1..Len(seq)}

inList(x, list) == x \in Range(list)

\* android.RemoveFromList: <<found, list without every occurrence of x>>
removeFromList(x, list) ==
    <<inList(x, list), SelectSeq(list, LAMBDA e : e # x)>>

\* android.IndexList: index of the first occurrence, 0 when absent
\* (Go: -1 when absent, indices from 0)
indexList(x, list) ==
    IF inList(x, list)
    THEN CHOOSE i \in 1..Len(list) : list[i] = x /\ \A j \in 1..(i-1) : list[j] # x
    ELSE 0

\* append(list[0:indx], list[indx+1:]...) for the first occurrence of x
removeFirst(x, list) ==
    LET i == indexList(x, list)
    IN IF i = 0 THEN list
       ELSE [j \in 1..(Len(list)-1) |-> IF j < i THEN list[j] ELSE list[j+1]]

(***************************************************************************)
(* SanitizerType and the order of the Sanitizers list.                     *)
(***************************************************************************)
Asan == "Asan"
Hwasan == "Hwasan"
tsan == "tsan"
intOverflow == "intOverflow"
scs == "scs"
Fuzzer == "Fuzzer"
Memtag_heap == "Memtag_heap"
Memtag_stack == "Memtag_stack"
cfi == "cfi"

Sanitizers ==
    <<Asan, Hwasan, tsan, intOverflow, scs, Fuzzer, Memtag_heap, Memtag_stack, cfi>>

SanitizerTypes == Range(Sanitizers)

\* values of the int type SanitizerType that are none of the constants
UnknownTypes == {"SanitizerType(0)", "SanitizerType(10)"}

\* the outcome of a call that ended in panic(fmt.Errorf("unknown SanitizerType %d", t))
Panic == "panic: unknown SanitizerType"

\* no per-sanitizer query has been made on its own
NoCall == [fn |-> "none", t |-> "", b |-> FALSE, panicked |-> FALSE, n |-> 0]

\* variationName with a default that returns instead of panicking
variationNameLenient(t) ==
    CASE t = Asan -> "asan"
      [] t = Hwasan -> "hwasan"
      [] t = tsan -> "tsan"
      [] t = intOverflow -> "intOverflow"
      [] t = cfi -> "cfi"
      [] t = scs -> "scs"
      [] t = Memtag_heap -> "memtag_heap"
      [] t = Memtag_stack -> "memtag_stack"
      [] t = Fuzzer -> "fuzzer"
      [] OTHER -> ""

\* lines 109-133
variationName(t) ==
    CASE t = Asan -> "asan"
      [] t = Hwasan -> "hwasan"
      [] t = tsan -> "tsan"
      [] t = intOverflow -> "intOverflow"
      [] t = cfi -> "cfi"
      [] t = scs -> "scs"
      [] t = Memtag_heap -> "memtag_heap"
      [] t = Memtag_stack -> "memtag_stack"
      [] t = Fuzzer -> "fuzzer"
      [] OTHER -> Panic

\* lines 135-159: the name of the sanitizer in SANITIZE_TARGET / SANITIZE_HOST
name(t) ==
    CASE t = Asan -> "address"
      [] t = Hwasan -> "hwaddress"
      [] t = Memtag_heap -> "memtag_heap"
      [] t = Memtag_stack -> "memtag_stack"
      [] t = tsan -> "thread"
      [] t = intOverflow -> "integer_overflow"
      [] t = cfi -> "cfi"
      [] t = scs -> "shadow-call-stack"
      [] t = Fuzzer -> "fuzzer"
      [] OTHER -> Panic

\* lines 161-172: the mutators registered for sanitizer t
registerMutators(t) ==
    CASE t \in {cfi, Hwasan, Asan, tsan, Fuzzer, scs} ->
            <<variationName(t) \o "_markapexes", variationName(t)>>
      [] t \in {Memtag_heap, Memtag_stack, intOverflow} -> <<>>
      [] OTHER -> <<Panic>>

\* the field of SanitizeUserProps that holds sanitizer t (the switch of
\* getSanitizerBoolPtr and of SetSanitizer)
SanitizerField(t) ==
    CASE t = Asan -> "Address"
      [] t = Hwasan -> "Hwaddress"
      [] t = tsan -> "Thread"
      [] t = intOverflow -> "Integer_overflow"
      [] t = cfi -> "Cfi"
      [] t = scs -> "Scs"
      [] t = Memtag_heap -> "Memtag_heap"
      [] t = Memtag_stack -> "Memtag_stack"
      [] t = Fuzzer -> "Fuzzer"
      [] OTHER -> Panic

(***************************************************************************)
(* SanitizeUserProps / SanitizeProperties.                                 *)
(***************************************************************************)
BoolFields ==
    {"Never", "Address", "Thread", "Hwaddress", "All_undefined", "Undefined",
     "Fuzzer", "Safestack", "Cfi", "Integer_overflow", "Scudo", "Scs",
     "Memtag_heap", "Memtag_stack", "Writeonly",
     "Diag_Undefined", "Diag_Cfi", "Diag_Integer_overflow", "Diag_Memtag_heap"}

ListFields == {"Misc_undefined", "Diag_Misc_undefined"}

EmptyUserProps ==
    [f \in BoolFields \cup ListFields |-> IF f \in BoolFields THEN Nil ELSE <<>>]

EmptyProperties ==
    [Sanitize |-> EmptyUserProps,
     SanitizerEnabled |-> FALSE,
     MinimalRuntimeDep |-> FALSE,
     BuiltinsDep |-> FALSE,
     UbsanRuntimeDep |-> FALSE,
     InSanitizerDir |-> FALSE,
     Sanitizers |-> <<>>,
     DiagSanitizers |-> <<>>]

(***************************************************************************)
(* Module facts read through BaseModuleContext.                            *)
(***************************************************************************)
Kinds == {"binary", "staticBinary", "shared", "static", "header"}

OsClasses == {"android", "linux_glibc", "linux_bionic", "linux_musl", "darwin", "windows"}

ArchTypes == {"arm64", "arm", "x86_64"}

Host(c) == c.os # "android"
Windows(c) == c.os = "windows"
OsLinux(c) == c.os \in {"android", "linux_glibc", "linux_bionic", "linux_musl"}
Bionic(c) == c.os \in {"android", "linux_bionic"}
Musl(c) == c.os = "linux_musl"
Is64Bit(c) == c.arch \in {"arm64", "x86_64"}
Arm64(c) == c.arch = "arm64"
static(c) == c.kind \in {"static", "staticBinary"}
staticBinary(c) == c.kind = "staticBinary"
Binary(c) == c.kind \in {"binary", "staticBinary"}
Header(c) == c.kind = "header"

\* boolean answers of the module context and of the global configuration
FactNames ==
    {"useSdk", "testBinary", "vndkVariant", "ramdiskOutsideLibc",
     "DisableCFI", "DisableScudo",
     "CFIDisabledForPath", "CFIEnabledForPath",
     "IntegerOverflowDisabledForPath", "IntegerOverflowEnabledForPath",
     "MemtagHeapDisabledForPath", "MemtagHeapSyncEnabledForPath",
     "MemtagHeapAsyncEnabledForPath",
     "BoundSanitizerEnabledForPath", "BoundSanitizerDisabledForPath",
     "InVendor", "VendorProprietary", "IsPrebuilt", "ExportedToMake", "Disabled",
     "Sanitize_minimal_dep", "Sanitize_ubsan_dep"}

\* the facts begin() reads
BeginFacts ==
    FactNames \ {"InVendor", "VendorProprietary", "IsPrebuilt", "ExportedToMake", "Disabled",
                 "Sanitize_minimal_dep", "Sanitize_ubsan_dep"}

\* names begin() recognises in SANITIZE_HOST / SANITIZE_TARGET, in the order
\* begin() consumes them, and one name it does not recognise
GlobalNames ==
    <<"undefined", "default-ub", "address", "thread", "fuzzer", "safe-stack",
      "cfi", "integer_overflow", "scudo", "hwaddress", "writeonly",
      "memtag_heap", "memtag_stack", "bogus">>

GlobalDiagNames == <<"integer_overflow", "cfi", "memtag_heap", "bogus">>

MiscNames == <<"bounds", "signed-integer-overflow", "unsigned-integer-overflow", "alignment">>

DefaultCtx(kind) ==
    [os |-> "android", arch |-> "arm64", kind |-> kind,
     role |-> "cc",                  \* which interfaces the module implements
     snapshot |-> {},                \* sanitizers a snapshotSanitizer linker provides
     facts |-> {"ExportedToMake"},
     SanitizeGlobal |-> <<>>,        \* SANITIZE_HOST resp. SANITIZE_TARGET
     SanitizeDeviceDiag |-> <<>>,    \* SANITIZE_TARGET_DIAG
     SanitizeDeviceArch |-> <<>>]    \* SANITIZE_TARGET_ARCH

Fact(c, fact) == fact \in c.facts

(***************************************************************************)
(* sanitize.begin, one operator per block of the function.  A step takes   *)
(* and returns the running state of the call:                              *)
(*   s        the SanitizeUserProps being resolved                         *)
(*   enabled  Properties.SanitizerEnabled                                  *)
(*   errs     the ModuleErrorf calls made so far                           *)
(*   gs, gd   the locals globalSanitizers and globalSanitizersDiag         *)
(*   seed     whether the "len(globalSanitizers) > 0" block was entered    *)
(*   returned whether begin() has returned                                 *)
(***************************************************************************)
Set(st, f, v) == [st EXCEPT !.s[f] = v]

\* lines 323-326: NDK code is never sanitized
StepUseSdk(st, c) ==
    IF Fact(c, "useSdk") THEN Set(st, "Never", BoolPtr(TRUE)) ELSE st

\* lines 328-331: Never always wins
StepNever(st, c) ==
    IF Bool(st.s.Never) THEN [st EXCEPT !.returned = TRUE] ELSE st

\* lines 333-341: cc_test defaults to sync memtag
StepTestBinary(st, c) ==
    IF Fact(c, "testBinary")
    THEN LET a == IF st.s.Memtag_heap = Nil
                  THEN Set(st, "Memtag_heap", BoolPtr(TRUE)) ELSE st
         IN IF a.s.Diag_Memtag_heap = Nil
            THEN Set(a, "Diag_Memtag_heap", BoolPtr(TRUE)) ELSE a
    ELSE st

\* lines 343-356: the global lists that apply to this module
StepGlobalLists(st, c) ==
    IF Host(c)
    THEN IF ~Windows(c) THEN [st EXCEPT !.gs = c.SanitizeGlobal] ELSE st
    ELSE IF Len(c.SanitizeDeviceArch) = 0 \/ inList(c.arch, c.SanitizeDeviceArch)
         THEN [st EXCEPT !.gs = c.SanitizeGlobal, !.gd = c.SanitizeDeviceDiag]
         ELSE st

\* line 358: the condition of the seeding block, evaluated once
StepSeedGuard(st, c) == [st EXCEPT !.seed = Len(st.gs) > 0]

\* a seeding that also overrides a field the declaration set to false
SeedGlobalOverFalse(st, option, field, allowed) ==
    LET r == removeFromList(option, st.gs)
        st1 == [st EXCEPT !.gs = r[2]]
    IN IF r[1] /\ ~Bool(st1.s[field]) /\ allowed
       THEN Set(st1, field, BoolPtr(TRUE))
       ELSE st1

\* "if found, globalSanitizers = removeFromList(name, ...); found && s.F == nil"
SeedGlobal(st, option, field, allowed) ==
    LET r == removeFromList(option, st.gs)
        st1 == [st EXCEPT !.gs = r[2]]
    IN IF r[1] /\ st1.s[field] = Nil /\ allowed
       THEN Set(st1, field, BoolPtr(TRUE))
       ELSE st1

\* the writeonly block if the error ended the call: nothing is set after it
SeedWriteonlyAborting(st) ==
    LET r == removeFromList("writeonly", st.gs)
        st1 == [st EXCEPT !.gs = r[2]]
    IN IF r[1] /\ st1.s.Writeonly = Nil
       THEN IF st1.s.Address = Nil /\ st1.s.Hwaddress = Nil
            THEN [st1 EXCEPT !.errs = Append(@, <<"writeonly modifier cannot be used without 'address' or 'hwaddress'">>),
                             !.returned = TRUE]
            ELSE Set(st1, "Writeonly", BoolPtr(TRUE))
       ELSE st1

\* lines 405-412: the writeonly modifier of the global list
SeedWriteonly(st) ==
    LET r == removeFromList("writeonly", st.gs)
        st1 == [st EXCEPT !.gs = r[2]]
    IN IF r[1] /\ st1.s.Writeonly = Nil
       THEN LET st2 == IF st1.s.Address = Nil /\ st1.s.Hwaddress = Nil
                       THEN [st1 EXCEPT !.errs = Append(@, <<"writeonly modifier cannot be used without 'address' or 'hwaddress'">>)]
                       ELSE st1
            IN Set(st2, "Writeonly", BoolPtr(TRUE))
       ELSE st1

\* lines 358-425: global list seeds the unset fields
StepSeedGlobal(st, c) ==
    IF ~st.seed THEN st
    ELSE
    LET s1 == SeedGlobal(st, "undefined", "All_undefined", TRUE)
        s2 == SeedGlobal(s1, "default-ub", "Undefined", TRUE)
        s3 == SeedGlobal(s2, "address", "Address", TRUE)
        s4 == SeedGlobal(s3, "thread", "Thread", TRUE)
        s5 == SeedGlobal(s4, "fuzzer", "Fuzzer", TRUE)
        s6 == SeedGlobal(s5, "safe-stack", "Safestack", TRUE)
        s7 == SeedGlobal(s6, "cfi", "Cfi", ~Fact(c, "CFIDisabledForPath"))
        s8 == SeedGlobal(s7, "integer_overflow", "Integer_overflow",
                         ~Fact(c, "IntegerOverflowDisabledForPath") /\ ~static(c))
        s9 == SeedGlobal(s8, "scudo", "Scudo", TRUE)
        s10 == SeedGlobal(s9, "hwaddress", "Hwaddress", TRUE)
        s11 == SeedWriteonly(s10)
        s12 == SeedGlobal(s11, "memtag_heap", "Memtag_heap",
                          ~Fact(c, "MemtagHeapDisabledForPath"))
        s13 == SeedGlobal(s12, "memtag_stack", "Memtag_stack", TRUE)
    IN IF Len(s13.gs) > 0
       THEN [s13 EXCEPT !.errs = Append(@, <<"unknown global sanitizer option", s13.gs[1]>>)]
       ELSE s13

\* "found, globalSanitizersDiag = removeFromList(name, ...); found && ..."
SeedDiag(st, option, field, cond) ==
    LET r == removeFromList(option, st.gd)
        st1 == [st EXCEPT !.gd = r[2]]
    IN IF r[1] /\ st1.s[field] = Nil /\ cond
       THEN Set(st1, field, BoolPtr(TRUE))
       ELSE st1

\* lines 427-445: global diagnostics list
StepSeedDiag(st, c) ==
    IF ~st.seed THEN st
    ELSE
    LET d1 == SeedDiag(st, "integer_overflow", "Diag_Integer_overflow",
                       Bool(st.s.Integer_overflow) /\ ~static(c))
        d2 == SeedDiag(d1, "cfi", "Diag_Cfi", Bool(d1.s.Cfi))
        d3 == SeedDiag(d2, "memtag_heap", "Diag_Memtag_heap", Bool(d2.s.Memtag_heap))
    IN IF Len(d3.gd) > 0
       THEN [d3 EXCEPT !.errs = Append(@, <<"unknown global sanitizer diagnostics option", d3.gd[1]>>)]
       ELSE d3

\* lines 448-462: memtag include paths (arm64 bionic only)
StepMemtagPaths(st, c) ==
    IF Arm64(c) /\ Bionic(c)
    THEN IF Fact(c, "MemtagHeapSyncEnabledForPath")
         THEN LET a == IF st.s.Memtag_heap = Nil
                       THEN Set(st, "Memtag_heap", BoolPtr(TRUE)) ELSE st
              IN IF a.s.Diag_Memtag_heap = Nil
                 THEN Set(a, "Diag_Memtag_heap", BoolPtr(TRUE)) ELSE a
         ELSE IF Fact(c, "MemtagHeapAsyncEnabledForPath")
              THEN IF st.s.Memtag_heap = Nil
                   THEN Set(st, "Memtag_heap", BoolPtr(TRUE)) ELSE st
              ELSE st
    ELSE st

\* lines 464-466: integer overflow include path
StepIntOverflowEnabledPath(st, c) ==
    IF st.s.Integer_overflow = Nil /\ Fact(c, "IntegerOverflowEnabledForPath") /\ Arm64(c)
    THEN Set(st, "Integer_overflow", BoolPtr(TRUE))
    ELSE st

\* lines 468-470: bounds include path
StepBoundEnabledPath(st, c) ==
    IF Fact(c, "BoundSanitizerEnabledForPath") /\ Arm64(c)
    THEN Set(st, "Misc_undefined", Append(st.s.Misc_undefined, "bounds"))
    ELSE st

\* lines 472-477: bounds exclude path
StepBoundDisabledPath(st, c) ==
    IF Fact(c, "BoundSanitizerDisabledForPath") /\ Arm64(c)
    THEN Set(st, "Misc_undefined", removeFirst("bounds", st.s.Misc_undefined))
    ELSE st

\* lines 479-491: integer overflow exclude path
StepIntOverflowDisabledPath(st, c) ==
    IF Fact(c, "IntegerOverflowDisabledForPath") /\ Arm64(c)
    THEN LET m1 == removeFirst("signed-integer-overflow", st.s.Misc_undefined)
             m2 == removeFirst("unsigned-integer-overflow", m1)
         IN Set(Set(st, "Misc_undefined", m2), "Integer_overflow", Nil)
    ELSE st

\* lines 493-499: CFI include path, device only
StepCfiEnabledPath(st, c) ==
    IF st.s.Cfi = Nil /\ Fact(c, "CFIEnabledForPath") /\ ~Host(c)
    THEN LET a == Set(st, "Cfi", BoolPtr(TRUE))
         IN IF inList("cfi", c.SanitizeDeviceDiag)
            THEN Set(a, "Diag_Cfi", BoolPtr(TRUE)) ELSE a
    ELSE st

\* lines 500-506: CFI exclude path, arm64 only
StepCfiDisabledPath(st, c) ==
    IF Fact(c, "CFIDisabledForPath") /\ Arm64(c)
    THEN LET a == Set(st, "Cfi", Nil)
         IN IF inList("cfi", c.SanitizeDeviceDiag)
            THEN Set(a, "Diag_Cfi", Nil) ELSE a
    ELSE st

ClearCfi(st) == Set(Set(st, "Cfi", Nil), "Diag_Cfi", Nil)

\* lines 508-512: is CFI actually enabled?
StepEnableCFI(st, c) ==
    IF Fact(c, "DisableCFI") THEN ClearCfi(st) ELSE st

\* lines 514-517: HWASan requires AArch64 and bionic
StepHwasanArch(st, c) ==
    IF ~Arm64(c) \/ ~Bionic(c) THEN Set(st, "Hwaddress", Nil) ELSE st

\* lines 519-522: SCS is only implemented on AArch64
StepScsArch(st, c) ==
    IF ~Arm64(c) \/ ~Bionic(c) THEN Set(st, "Scs", Nil) ELSE st

\* lines 524-529: memtag only on AArch64 bionic devices
StepMemtagArch(st, c) ==
    IF ~Arm64(c) \/ ~Bionic(c) \/ Host(c)
    THEN Set(Set(st, "Memtag_heap", Nil), "Memtag_stack", Nil)
    ELSE st

\* lines 531-538: ASAN and HWASAN win against CFI and MTE
StepAsanClears(st, c) ==
    IF Bool(st.s.Address) \/ Bool(st.s.Hwaddress)
    THEN Set(Set(ClearCfi(st), "Memtag_heap", Nil), "Memtag_stack", Nil)
    ELSE st

\* lines 540-548: no UBSan-runtime sanitizers on windows/darwin
StepNonLinux(st, c) ==
    IF ~OsLinux(c)
    THEN LET a == ClearCfi(st)
             b == Set(a, "Misc_undefined", <<>>)
             d == Set(b, "Undefined", Nil)
             e == Set(d, "All_undefined", Nil)
         IN Set(e, "Integer_overflow", Nil)
    ELSE st

\* lines 550-554: no CFI for musl
StepMusl(st, c) ==
    IF Musl(c) THEN ClearCfi(st) ELSE st

\* lines 556-567: no CFI for VNDK variants (both branches clear it)
StepVndk(st, c) ==
    IF Fact(c, "vndkVariant") THEN ClearCfi(st) ELSE st

\* lines 569-573: no HWASan in ramdisk / vendor_ramdisk / recovery outside bionic/libc
StepRamdisk(st, c) ==
    IF Fact(c, "ramdiskOutsideLibc") THEN Set(st, "Hwaddress", Nil) ELSE st

\* lines 575-579: static binaries
StepStaticBinary(st, c) ==
    IF staticBinary(c)
    THEN Set(Set(Set(st, "Address", Nil), "Fuzzer", Nil), "Thread", Nil)
    ELSE st

\* a block that turns Undefined on where lines 581-583 clear it
StepAllUndefinedSetsUndefined(st, c) ==
    IF Bool(st.s.All_undefined) THEN Set(st, "Undefined", BoolPtr(TRUE)) ELSE st

\* lines 581-583
StepAllUndefined(st, c) ==
    IF Bool(st.s.All_undefined) THEN Set(st, "Undefined", Nil) ELSE st

\* lines 585-590: TSAN and SafeStack need a 64-bit toolchain
Step32Bit(st, c) ==
    IF ~Is64Bit(c) THEN Set(Set(st, "Thread", Nil), "Safestack", Nil) ELSE st

\* the disjunction of lines 592-594
AnyModeSet(s) ==
    \/ Bool(s.All_undefined) \/ Bool(s.Undefined) \/ Bool(s.Address) \/ Bool(s.Thread)
    \/ Bool(s.Fuzzer) \/ Bool(s.Safestack) \/ Bool(s.Cfi) \/ Bool(s.Integer_overflow)
    \/ Len(s.Misc_undefined) > 0
    \/ Bool(s.Scudo) \/ Bool(s.Hwaddress) \/ Bool(s.Scs)
    \/ Bool(s.Memtag_heap) \/ Bool(s.Memtag_stack)

\* lines 592-596
StepSanitizerEnabled(st, c) ==
    IF ~Windows(c) /\ AnyModeSet(st.s) THEN [st EXCEPT !.enabled = TRUE] ELSE st

\* lines 598-601: Scudo loses against ASan, TSan and HWASan
StepScudo(st, c) ==
    IF Bool(st.s.Address) \/ Bool(st.s.Thread) \/ Bool(st.s.Hwaddress) \/ Fact(c, "DisableScudo")
    THEN Set(st, "Scudo", Nil)
    ELSE st

\* lines 603-606: HWASan wins against ASan and TSan
StepHwasanWins(st, c) ==
    IF Bool(st.s.Hwaddress) THEN Set(Set(st, "Address", Nil), "Thread", Nil) ELSE st

\* lines 608-612: Fuzzer is incompatible with CFI
StepFuzzerCfi(st, c) ==
    IF Bool(st.s.Fuzzer) THEN Set(st, "Cfi", Nil) ELSE st

\* number of blocks of begin()
NumBeginSteps == 30

\* index of the first pruning block ("Is CFI actually enabled?")
FirstPruneStep == 15

\* the i-th block of begin()
BeginStep(i, st, c) ==
    CASE i = 1 -> StepUseSdk(st, c)
      [] i = 2 -> StepNever(st, c)
      [] i = 3 -> StepTestBinary(st, c)
      [] i = 4 -> StepGlobalLists(st, c)
      [] i = 5 -> StepSeedGuard(st, c)
      [] i = 6 -> StepSeedGlobal(st, c)
      [] i = 7 -> StepSeedDiag(st, c)
      [] i = 8 -> StepMemtagPaths(st, c)
      [] i = 9 -> StepIntOverflowEnabledPath(st, c)
      [] i = 10 -> StepBoundEnabledPath(st, c)
      [] i = 11 -> StepBoundDisabledPath(st, c)
      [] i = 12 -> StepIntOverflowDisabledPath(st, c)
      [] i = 13 -> StepCfiEnabledPath(st, c)
      [] i = 14 -> StepCfiDisabledPath(st, c)
      [] i = 15 -> StepEnableCFI(st, c)
      [] i = 16 -> StepHwasanArch(st, c)
      [] i = 17 -> StepScsArch(st, c)
      [] i = 18 -> StepMemtagArch(st, c)
      [] i = 19 -> StepAsanClears(st, c)
      [] i = 20 -> StepNonLinux(st, c)
      [] i = 21 -> StepMusl(st, c)
      [] i = 22 -> StepVndk(st, c)
      [] i = 23 -> StepRamdisk(st, c)
      [] i = 24 -> StepStaticBinary(st, c)
      [] i = 25 -> StepAllUndefined(st, c)
      [] i = 26 -> Step32Bit(st, c)
      [] i = 27 -> StepSanitizerEnabled(st, c)
      [] i = 28 -> StepScudo(st, c)
      [] i = 29 -> StepHwasanWins(st, c)
      [] i = 30 -> StepFuzzerCfi(st, c)

\* the state of the call after blocks 1..n (blocks after a return do nothing)
RECURSIVE BeginUpTo(_, _, _)
BeginUpTo(n, st, c) ==
    IF n = 0 THEN st
    ELSE CHOOSE next \in {IF prev.returned THEN prev ELSE BeginStep(n, prev, c) :
                            prev \in {BeginUpTo(n - 1, st, c)}} : TRUE

BeginEntry(P) ==
    [s |-> P.Sanitize, enabled |-> P.SanitizerEnabled, errs |-> <<>>,
     gs |-> <<>>, gd |-> <<>>, seed |-> FALSE, returned |-> FALSE]

\* sanitize.begin(ctx): the properties it leaves and the errors it reports
begin(P, c) ==
    LET st == BeginUpTo(NumBeginSteps, BeginEntry(P), c)
    IN [P |-> [P EXCEPT !.Sanitize = st.s, !.SanitizerEnabled = st.enabled],
        errs |-> st.errs]

(***************************************************************************)
(* Inputs.  An input is a declared sanitize block together with the module *)
(* facts; it is built from the plain module (device, arm64, empty block,   *)
(* empty global lists) by at most MaxInputs single changes.                *)
(***************************************************************************)
InputChanges ==
    [t : {"decl"}, f : BoolFields \ {"Never"}, v : {"true", "false"}]
    \cup [t : {"decl"}, f : {"Never"}, v : {"true"}]
    \cup [t : {"list"}, f : {"Misc_undefined"}, v : Range(MiscNames)]
    \cup [t : {"list"}, f : {"Diag_Misc_undefined"}, v : {"bounds"}]
    \cup [t : {"fact"}, f : BeginFacts, v : {""}]
    \cup [t : {"config"}, f : {"SanitizeGlobal"}, v : Range(GlobalNames)]
    \cup [t : {"config"}, f : {"SanitizeDeviceDiag"}, v : Range(GlobalDiagNames)]
    \cup [t : {"config"}, f : {"SanitizeDeviceArch"}, v : {"arm"}]
    \cup [t : {"target"}, f : {"os"}, v : OsClasses \ {"android"}]
    \cup [t : {"target"}, f : {"arch"}, v : ArchTypes \ {"arm64"}]

\* list with x added, kept in the order of `order`
Listed(order, list, x) ==
    SelectSeq(order, LAMBDA e : e \in Range(list) \cup {x})

\* one change applied to an input (an input it does not apply to is unchanged)
Change(inp, a) ==
    CASE a.t = "decl" ->
            IF inp.d[a.f] = Nil THEN [inp EXCEPT !.d[a.f] = a.v] ELSE inp
      [] a.t = "list" ->
            [inp EXCEPT !.d[a.f] = Listed(MiscNames, @, a.v)]
      [] a.t = "fact" ->
            IF a.f = "testBinary" /\ ~Binary(inp.c) THEN inp
            ELSE [inp EXCEPT !.c.facts = @ \cup {a.f}]
      [] a.t = "config" ->
            [inp EXCEPT !.c[a.f] =
                Listed(IF a.f = "SanitizeGlobal" THEN GlobalNames
                       ELSE IF a.f = "SanitizeDeviceDiag" THEN GlobalDiagNames
                       ELSE <<"arm">>, @, a.v)]
      [] a.t = "target" ->
            IF inp.c[a.f] = DefaultCtx(inp.c.kind)[a.f] THEN [inp EXCEPT !.c[a.f] = a.v] ELSE inp

RECURSIVE InputsUpTo(_)
InputsUpTo(k) ==
    IF k = 0 THEN {[d |-> EmptyUserProps, c |-> DefaultCtx(kind)] : kind \in Kinds}
    ELSE LET less == InputsUpTo(k - 1)
         IN less \cup {Change(inp, a) : inp \in less, a \in InputChanges}

Inputs == InputsUpTo(MaxInputs)

(***************************************************************************)
(* Module copies.  A copy id is <<module id, variations>>, variations      *)
(* being the variation names of the split passes done so far.              *)
(***************************************************************************)
\* the empty Flags
NoFlags ==
    [CFlags |-> <<>>, LdFlags |-> <<>>, AsFlags |-> <<>>, GlobalLdFlags |-> <<>>,
     RequiredInstructionSet |-> "", DynamicLinker |-> ""]

NewCopy(P) ==
    [P |-> P,
     PreventInstall |-> FALSE,
     HideFromMake |-> FALSE,
     preventInstallBy |-> {},   \* the sanitizers whose Mutate called SetPreventInstall
     apexSanitizers |-> {},     \* Sanitizeable (APEX): names given to EnableSanitizer
     sanitizerDeps |-> {},      \* Sanitizeable (APEX): AddSanitizerDependencies calls
     runtimeDeps |-> <<>>,      \* dependencies added by sanitizerRuntimeMutator
     flags |-> NoFlags]          \* the Flags returned by sanitize.flags

Root(m) == <<m, <<>>>>

CopiesOf(m) == {k \in DOMAIN copies : k[1] = m}

(***************************************************************************)
(* Queries and setters on the sanitize properties of a module copy.        *)
(***************************************************************************)
getSanitizerBoolPtr(P, t) ==
    IF SanitizerField(t) = Panic THEN Panic ELSE P.Sanitize[SanitizerField(t)]

isSanitizerEnabled(P, t) == getSanitizerBoolPtr(P, t) = "true"

isSanitizerExplicitlyDisabled(P, t) == getSanitizerBoolPtr(P, t) = "false"

SanitizeNever(P) == Bool(P.Sanitize.Never)

SanitizerSupported(t) == t \in SanitizerTypes

incompatibleWithCfi(t) == t = Asan \/ t = Fuzzer \/ t = Hwasan

\* SetSanitizer(t, b): false is stored as nil; the default of the switch
\* panics before SanitizerEnabled is touched
SetSanitizer(P, t, b) ==
    IF SanitizerField(t) = Panic THEN [panic |-> Panic]
    ELSE [P EXCEPT !.Sanitize[SanitizerField(t)] = IF b THEN BoolPtr(TRUE) ELSE Nil,
                   !.SanitizerEnabled = IF b THEN TRUE ELSE @]

(***************************************************************************)
(* Module roles: which of the interfaces probed by the split mutator a     *)
(* module implements.                                                      *)
(*   "cc"      cc.Module with a sanitize feature (PlatformSanitizeable)    *)
(*   "ccNoSan" cc.Module whose sanitize is nil (snapshot modules)          *)
(*   "jni"     JniSanitizeable                                             *)
(*   "apex"    Sanitizeable                                                *)
(*   "other"   none of them                                                *)
(***************************************************************************)
Roles == {"cc", "ccNoSan", "jni", "apex", "other"}

PlatformSanitizeable(c) == c.role \in {"cc", "ccNoSan"}

SanitizePropDefined(c) == c.role = "cc"

\* dm.linker.(snapshotSanitizer) with ss.isSanitizerEnabled(t)
SnapshotSanitizerEnabled(c, t) == c.role = "ccNoSan" /\ t \in c.snapshot

\* Sanitizeable.IsSanitizerEnabled(config, name) of an APEX copy
ApexSanitizerEnabled(cp, t) == t \in cp.apexSanitizers

\* dependency tags: any libraryDependencyTag, the dependencyTags reuseObjTag
\* and objDepTag, and any other tag
Tags == {"library", "reuseObj", "objDep", "other"}

\* a tag test that takes the library tags only for sanitizable
IsLibraryDependencyTag(tag) == tag = "library"

\* lines 973-983
IsSanitizableDependencyTag(tag) ==
    CASE tag \in {"reuseObj", "objDep"} -> TRUE
      [] tag = "library" -> TRUE
      [] OTHER -> FALSE

\* lines 989-1018
needsCfiForVendorSnapshot(c, P) ==
    IF Fact(c, "VendorProprietary") THEN FALSE
    ELSE IF ~Fact(c, "InVendor") THEN FALSE
    ELSE IF ~static(c) THEN FALSE
    ELSE IF Fact(c, "IsPrebuilt") THEN FALSE
    ELSE IF ~SanitizerSupported(cfi) THEN FALSE
    ELSE SanitizePropDefined(c) /\ ~SanitizeNever(P) /\ ~isSanitizerExplicitlyDisabled(P, cfi)

(***************************************************************************)
(* sanitizerSplitMutator: Split, OutgoingTransition, IncomingTransition    *)
(* and Mutate for sanitizer t on a module with facts c and copy cp.        *)
(* The base variation is "".                                               *)
(***************************************************************************)
\* Split without the base variant of static and header libraries
SplitSanitizedOnly(t, c, cp) ==
    IF PlatformSanitizeable(c) /\ SanitizePropDefined(c)
    THEN IF ~isSanitizerEnabled(cp.P, t) THEN {""} ELSE {variationName(t)}
    ELSE {""}

Split(t, c, cp) ==
    IF PlatformSanitizeable(c) /\ SanitizePropDefined(c)
    THEN IF t = cfi /\ needsCfiForVendorSnapshot(c, cp.P)
         THEN {"", variationName(t)}
         ELSE IF ~isSanitizerEnabled(cp.P, t) THEN {""}
         ELSE IF Binary(c) THEN {variationName(t)}
         ELSE IF static(c) \/ Header(c) THEN {"", variationName(t)}
         ELSE {variationName(t)}
    ELSE IF c.role = "jni" THEN {""}
    ELSE IF c.role = "apex"
         THEN IF ApexSanitizerEnabled(cp, t) THEN {variationName(t)} ELSE {""}
    ELSE IF c.role = "ccNoSan"
         THEN IF SnapshotSanitizerEnabled(c, t) THEN {"", variationName(t)} ELSE {""}
    ELSE {""}

\* OutgoingTransition without the test of the dependency tag
OutgoingIgnoringTag(t, c, tag, sourceVariation) ==
    IF c.role = "jni" THEN "" ELSE sourceVariation

OutgoingTransition(t, c, tag, sourceVariation) ==
    IF PlatformSanitizeable(c)
    THEN IF ~IsSanitizableDependencyTag(tag) THEN "" ELSE sourceVariation
    ELSE IF c.role = "jni" THEN ""
    ELSE sourceVariation

\* IncomingTransition where every sanitizer propagates through shared libraries
IncomingThroughShared(t, c, cp, incomingVariation) ==
    IF PlatformSanitizeable(c)
    THEN IF \/ ~SanitizePropDefined(c)
            \/ SanitizeNever(cp.P)
            \/ isSanitizerExplicitlyDisabled(cp.P, t)
         THEN ""
         ELSE IF Binary(c)
              THEN IF isSanitizerEnabled(cp.P, t) THEN variationName(t) ELSE ""
         ELSE IF ~static(c) /\ ~Header(c) /\ isSanitizerEnabled(cp.P, t)
              THEN variationName(t)
         ELSE incomingVariation
    ELSE ""

\* IncomingTransition where static and header libraries do not inherit
IncomingNotInherited(t, c, cp, incomingVariation) ==
    IF PlatformSanitizeable(c) /\ SanitizePropDefined(c)
       /\ isSanitizerEnabled(cp.P, t) /\ ~SanitizeNever(cp.P)
       /\ (Binary(c) \/ (~static(c) /\ ~Header(c)))
    THEN variationName(t)
    ELSE ""

IncomingTransition(t, c, cp, incomingVariation) ==
    IF PlatformSanitizeable(c)
    THEN IF SnapshotSanitizerEnabled(c, t) THEN incomingVariation
         ELSE IF \/ ~SanitizePropDefined(c)
                 \/ SanitizeNever(cp.P)
                 \/ isSanitizerExplicitlyDisabled(cp.P, t)
                 \/ ~SanitizerSupported(t)
              THEN ""
         ELSE IF Binary(c)
              THEN IF isSanitizerEnabled(cp.P, t) THEN variationName(t) ELSE ""
         ELSE IF ~static(c) /\ ~Header(c) /\ isSanitizerEnabled(cp.P, t)
              THEN variationName(t)
         ELSE IF ~static(c) /\ ~Header(c) /\ (t = cfi \/ t = Hwasan \/ t = scs \/ t = Asan)
              THEN ""
         ELSE incomingVariation
    ELSE IF c.role = "apex"
         THEN IF ApexSanitizerEnabled(cp, t) THEN variationName(t) ELSE incomingVariation
    ELSE ""

\* no sanitizer exports only one variation to Make
noOneMakeVariation(t, c) == FALSE

\* lines 1179-1194: does this sanitizer export only one variation to Make?
oneMakeVariation(t, c) ==
    IF static(c) \/ Header(c)
    THEN t # cfi /\ t # scs /\ t # Hwasan
    ELSE IF ~Binary(c)
         THEN t # cfi /\ t # Hwasan /\ t # scs /\ t # Asan
         ELSE FALSE

\* lines 1219-1225 and 1239-1245: does Mutate on this copy call add() on the
\* sanitizerStaticLibsMap of t?
MutateAdds(t, c, cp, variation) ==
    IF PlatformSanitizeable(c) /\ SanitizePropDefined(c)
    THEN variation = variationName(t) /\ static(c) /\ Fact(c, "ExportedToMake")
         /\ t \in {Hwasan, cfi}
    ELSE IF c.role = "apex" THEN FALSE
    ELSE c.role = "ccNoSan" /\ SnapshotSanitizerEnabled(c, t)
         /\ static(c) /\ Fact(c, "ExportedToMake") /\ t = cfi

\* Mutate without the branch that clears the sanitizer outside its variation
MutateWithoutClearing(t, c, cp, variation) ==
    LET sanitizerVariation == variation = variationName(t)
    IN
    IF PlatformSanitizeable(c) /\ SanitizePropDefined(c)
    THEN
      LET sanitizerEnabled == isSanitizerEnabled(cp.P, t)
          hide == oneMakeVariation(t, c) /\ sanitizerEnabled # sanitizerVariation
          cp1 == IF hide
                 THEN [cp EXCEPT !.PreventInstall = TRUE, !.HideFromMake = TRUE,
                                 !.preventInstallBy = @ \cup {t}]
                 ELSE cp
      IN IF sanitizerVariation
         THEN LET P1 == SetSanitizer(cp1.P, t, TRUE)
                  P2 == IF incompatibleWithCfi(t) /\ ~Host(c) /\ SanitizerSupported(cfi)
                        THEN SetSanitizer(P1, cfi, FALSE) ELSE P1
                  P3 == IF ~Binary(c) /\ ~static(c) /\ ~Header(c) /\ ~Host(c)
                           /\ t = Asan /\ sanitizerEnabled
                        THEN [P2 EXCEPT !.InSanitizerDir = TRUE] ELSE P2
              IN [cp1 EXCEPT !.P = P3]
         ELSE cp1
    ELSE IF c.role = "apex"
         THEN IF sanitizerVariation
              THEN [cp EXCEPT !.sanitizerDeps = @ \cup {t}] ELSE cp
    ELSE cp

\* lines 1173-1248: the copy Mutate leaves
Mutate(t, c, cp, variation) ==
    LET sanitizerVariation == variation = variationName(t)
    IN
    IF PlatformSanitizeable(c) /\ SanitizePropDefined(c)
    THEN
      LET sanitizerEnabled == isSanitizerEnabled(cp.P, t)
          hide == oneMakeVariation(t, c) /\ sanitizerEnabled # sanitizerVariation
          cp1 == IF hide
                 THEN [cp EXCEPT !.PreventInstall = TRUE, !.HideFromMake = TRUE,
                                 !.preventInstallBy = @ \cup {t}]
                 ELSE cp
      IN IF sanitizerVariation
         THEN LET P1 == SetSanitizer(cp1.P, t, TRUE)
                  P2 == IF incompatibleWithCfi(t) /\ ~Host(c) /\ SanitizerSupported(cfi)
                        THEN SetSanitizer(P1, cfi, FALSE) ELSE P1
                  P3 == IF ~Binary(c) /\ ~static(c) /\ ~Header(c) /\ ~Host(c)
                           /\ t = Asan /\ sanitizerEnabled
                        THEN [P2 EXCEPT !.InSanitizerDir = TRUE] ELSE P2
              IN [cp1 EXCEPT !.P = P3]
         ELSE IF isSanitizerEnabled(cp1.P, t)
              THEN [cp1 EXCEPT !.P = SetSanitizer(@, t, FALSE)]
              ELSE cp1
    ELSE IF c.role = "apex"
         THEN IF sanitizerVariation
              THEN [cp EXCEPT !.sanitizerDeps = @ \cup {t}] ELSE cp
    ELSE cp

(***************************************************************************)
(* sanitizerStaticLibsMap: libsMap[image][arch] is a list of module names. *)
(* A Go map is a function whose domain is the set of keys present.  A      *)
(* module name is the id of the module; names sort as ids do.              *)
(***************************************************************************)
\* the image variants and the architectures, in the order of their names
ImageVariantTypes == <<"core", "vendor">>
ArchNames == <<"arm", "arm64", "x86_64">>

\* GetImageVariantType(c)
GetImageVariantType(c) == IF Fact(c, "InVendor") THEN "vendor" ELSE "core"

\* line 1588-1593
newSanitizerStaticLibsMap == <<>>

\* lines 1603-1605: the map of the image is made when it is missing
ensureImage(libsMap, image) ==
    IF image \in DOMAIN libsMap THEN libsMap ELSE libsMap @@ (image :> <<>>)

\* line 1607, right-hand side: the slice append() starts from (nil when the
\* architecture has no entry)
readLibs(libsMap, image, arch) ==
    IF arch \in DOMAIN libsMap[image] THEN libsMap[image][arch] ELSE <<>>

\* line 1607, assignment
storeLibs(libsMap, image, arch, libs) ==
    [libsMap EXCEPT ![image] =
        IF arch \in DOMAIN @ THEN [@ EXCEPT ![arch] = libs] ELSE @ @@ (arch :> libs)]

\* add that files every name under the core image
addUnderCore(libsMap, image, arch, nm) ==
    LET m1 == ensureImage(libsMap, "core")
    IN storeLibs(m1, "core", arch, Append(readLibs(m1, "core", arch), nm))

\* lines 1597-1608: add, with libsMapLock held from 1601 to the return
add(libsMap, image, arch, nm) ==
    LET m1 == ensureImage(libsMap, image)
    IN storeLibs(m1, image, arch, Append(readLibs(m1, image, arch), nm))

\* android.SortedStringKeys of a map whose keys are among those of `order`
SortedStringKeys(m, order) == SelectSeq(order, LAMBDA key : key \in DOMAIN m)

\* line 1622-1626
MakeKey(t, image, arch) ==
    "SOONG_" \o variationName(t) \o "_" \o image \o "_" \o arch \o "_STATIC_LIBRARIES"

\* line 1621: sort.Strings(libs) sorts the slice held by the map in place
sortLibs(libsMap) ==
    [image \in DOMAIN libsMap |->
        [arch \in DOMAIN libsMap[image] |->
            SortSeq(libsMap[image][arch], LAMBDA a, b : a < b)]]

\* lines 1616-1632: exportToMake, the ctx.Strict calls it makes in order
exportToMake(t, libsMap) ==
    LET images == SortedStringKeys(libsMap, ImageVariantTypes)
        ofImage(image) ==
            LET archs == SortedStringKeys(libsMap[image], ArchNames)
            IN [j \in 1..Len(archs) |->
                   <<MakeKey(t, image, archs[j]),
                     SortSeq(libsMap[image][archs[j]], LAMBDA a, b : a < b)>>]
        RECURSIVE upTo(_)
        upTo(i) == IF i = 0 THEN <<>> ELSE upTo(i - 1) \o ofImage(images[i])
    IN upTo(Len(images))

(***************************************************************************)
(* The split passes.  registerMutators registers, in the order of          *)
(* Sanitizers, a markapexes top-down mutator and a transition mutator for  *)
(* every sanitizer that creates variations.                                *)
(***************************************************************************)
\* a registration that gives integer overflow a transition mutator as well
registersMutatorsIntOverflow(t) == t \in {cfi, Hwasan, Asan, tsan, Fuzzer, scs, intOverflow}

registersMutators(t) == t \in {cfi, Hwasan, Asan, tsan, Fuzzer, scs}

\* the order if cfi were the first sanitizer of the Sanitizers list
CfiFirstOrder ==
    <<cfi>> \o SelectSeq(Sanitizers, LAMBDA t : registersMutators(t) /\ t # cfi)

TransitionOrder == SelectSeq(Sanitizers, registersMutators)

Modules == DOMAIN mctx

LinksFrom(k) == {l \in links : l.src = k}
LinksTo(k) == {l \in links : l.dst = k}

\* a first pass that is never followed by another one
PassStartsOnce == phase = "load" /\ \A m \in Modules : begun[m] = 1

\* a pass can start once begin() has run once on every module and the
\* previous pass, if any, has mutated every module
PassCanStart ==
    \/ phase = "load" /\ \A m \in Modules : begun[m] = 1
    \/ phase = "bottomup" /\ done = Modules /\ pass < Len(TransitionOrder)

\* markSanitizableApexesMutator of the next pass, on every Sanitizeable module
MarkApexes ==
    /\ PassCanStart
    /\ LET t == TransitionOrder[pass + 1]
           marked(k) ==
              \/ ApexSanitizerEnabled(copies[k], t)
              \/ \E l \in LinksFrom(k) :
                    /\ PlatformSanitizeable(mctx[l.dst[1]])
                    /\ SanitizePropDefined(mctx[l.dst[1]])
                    /\ isSanitizerEnabled(copies[l.dst].P, t)
       IN copies' = [k \in DOMAIN copies |->
                        IF mctx[k[1]].role = "apex" /\ marked(k)
                        THEN [copies[k] EXCEPT !.apexSanitizers = @ \cup {t}]
                        ELSE copies[k]]
    /\ pass' = pass + 1
    /\ phase' = "markapex"
    /\ done' = {}
    /\ UNCHANGED <<mctx, decl, errors, begun, firstRun, edges, links, staticLibs, apart>>

\* the variations of copy k the pass needs: those of its own split decision
\* and those its dependents' edges resolve to
RECURSIVE Variations(_, _)
Variations(t, k) ==
    Split(t, mctx[k[1]], copies[k])
    \cup {IncomingTransition(t, mctx[k[1]], copies[k],
              OutgoingTransition(t, mctx[l.src[1]], l.tag, v)) :
            <<l, v>> \in {<<l2, v2>> \in LinksTo(k) \X {"", variationName(t)} :
                            v2 \in Variations(t, l2.src)}}

Variant(k, v) == <<k[1], Append(k[2], v)>>

\* the top-down half of the transition mutator: every copy is split into the
\* variations needed and every dependency is bound to the variation of its
\* target that the two transitions resolve
TopDown ==
    /\ phase = "markapex"
    /\ LET t == TransitionOrder[pass]
           new == {<<k, v>> \in (DOMAIN copies) \X {"", variationName(t)} :
                      v \in Variations(t, k)}
       IN /\ copies' = [n \in {Variant(x[1], x[2]) : x \in new} |->
                           copies[<<n[1], SubSeq(n[2], 1, Len(n[2]) - 1)>>]]
          /\ links' = {[src |-> Variant(l.src, v),
                        dst |-> Variant(l.dst,
                                   IncomingTransition(t, mctx[l.dst[1]], copies[l.dst],
                                      OutgoingTransition(t, mctx[l.src[1]], l.tag, v))),
                        tag |-> l.tag] :
                         <<l, v>> \in {<<l2, v2>> \in links \X {"", variationName(t)} :
                                         v2 \in Variations(t, l2.src)}}
    /\ phase' = "bottomup"
    /\ UNCHANGED <<mctx, decl, errors, begun, firstRun, edges, pass, done, staticLibs, apart>>

\* n calls of add(c, name), one by each copy of the module that adds itself
RECURSIVE addTimes(_, _, _, _)
addTimes(n, libsMap, c, nm) ==
    IF n = 0 THEN libsMap
    ELSE add(addTimes(n - 1, libsMap, c, nm), GetImageVariantType(c), c.arch, nm)

\* the bottom-up half on module m: Mutate on each of its variations, once the
\* modules it depends on have been mutated
MutateModule(m) ==
    /\ phase = "bottomup"
    /\ m \notin done
    /\ \A e \in edges : e.src = m => e.dst \in done
    /\ LET t == TransitionOrder[pass]
           last(k) == k[2][Len(k[2])]
           added == {k \in CopiesOf(m) : MutateAdds(t, mctx[m], copies[k], last(k))}
       IN /\ copies' = [k \in DOMAIN copies |->
                           IF k[1] = m THEN Mutate(t, mctx[m], copies[k], last(k))
                           ELSE copies[k]]
          /\ staticLibs' =
                IF added = {} THEN staticLibs
                ELSE [staticLibs EXCEPT ![t] = addTimes(Cardinality(added), @, mctx[m], m)]
    /\ done' = done \cup {m}
    /\ UNCHANGED <<phase, mctx, decl, errors, begun, firstRun, edges, links, pass, apart>>

(***************************************************************************)
(* Runtime dependencies: enableMinimalRuntime, enableUbsanRuntime,         *)
(* sanitizerRuntimeDepsMutator and sanitizerRuntimeMutator.                *)
(***************************************************************************)
\* an eligibility test that does not look at the cfi diagnostics
enableMinimalRuntimeAnyCfiDiag(P) ==
    LET s == P.Sanitize
    IN /\ ~Bool(s.Address)
       /\ ~Bool(s.Hwaddress)
       /\ ~Bool(s.Fuzzer)
       /\ (\/ Bool(s.Integer_overflow)
           \/ Len(s.Misc_undefined) > 0
           \/ Bool(s.Undefined)
           \/ Bool(s.All_undefined))
       /\ ~(\/ Bool(s.Diag_Integer_overflow)
            \/ Bool(s.Diag_Undefined)
            \/ Len(s.Diag_Misc_undefined) > 0)

\* lines 1650-1666
enableMinimalRuntime(P) ==
    LET s == P.Sanitize
    IN /\ ~Bool(s.Address)
       /\ ~Bool(s.Hwaddress)
       /\ ~Bool(s.Fuzzer)
       /\ (\/ Bool(s.Integer_overflow)
           \/ Len(s.Misc_undefined) > 0
           \/ Bool(s.Undefined)
           \/ Bool(s.All_undefined))
       /\ ~(\/ Bool(s.Diag_Integer_overflow)
            \/ Bool(s.Diag_Cfi)
            \/ Bool(s.Diag_Undefined)
            \/ Len(s.Diag_Misc_undefined) > 0)

enableUbsanRuntime(P) ==
    LET s == P.Sanitize
    IN \/ Bool(s.Diag_Integer_overflow)
       \/ Bool(s.Diag_Undefined)
       \/ Len(s.Diag_Misc_undefined) > 0

\* the dependencies of copy k in the order WalkDeps visits them
RECURSIVE SeqOfLinks(_)
SeqOfLinks(ls) ==
    IF ls = {} THEN <<>>
    ELSE LET l == CHOOSE x \in ls : \A y \in ls : x.dst[1] <= y.dst[1]
         IN <<l>> \o SeqOfLinks(ls \ {l})

\* a visit that stops the descent as soon as one of the two flags is set
VisitDepStopAtFirst(c, f, l) ==
    LET d == mctx[l.dst[1]]
        dP == copies[l.dst].P
    IN IF ~IsSanitizableDependencyTag(l.tag) THEN [f |-> f, descend |-> FALSE]
       ELSE IF ~(d.role \in {"cc", "ccNoSan"}) \/ ~static(d) THEN [f |-> f, descend |-> FALSE]
       ELSE IF d.role = "cc"
            THEN LET f1 == IF enableMinimalRuntime(dP)
                           THEN [f EXCEPT !.MinimalRuntimeDep = TRUE]
                           ELSE IF enableUbsanRuntime(dP)
                                THEN [f EXCEPT !.UbsanRuntimeDep = TRUE]
                                ELSE f
                 IN IF f1.MinimalRuntimeDep \/ f1.UbsanRuntimeDep
                    THEN [f |-> f1, descend |-> FALSE]
                    ELSE [f |-> IF c.os = "linux_glibc"
                                THEN [f1 EXCEPT !.BuiltinsDep = TRUE] ELSE f1,
                          descend |-> TRUE]
            ELSE [f |-> [f EXCEPT
                           !.MinimalRuntimeDep = @ \/ Fact(d, "Sanitize_minimal_dep"),
                           !.UbsanRuntimeDep = @ \/ Fact(d, "Sanitize_ubsan_dep")],
                  descend |-> FALSE]

\* lines 1263-1306: the visit of one dependency by the walk of copy k;
\* f holds the three flags of k, descend is the return value
VisitDep(c, f, l) ==
    LET d == mctx[l.dst[1]]
        dP == copies[l.dst].P
    IN IF ~IsSanitizableDependencyTag(l.tag) THEN [f |-> f, descend |-> FALSE]
       ELSE IF ~(d.role \in {"cc", "ccNoSan"}) \/ ~static(d) THEN [f |-> f, descend |-> FALSE]
       ELSE IF d.role = "cc"
            THEN LET f1 == IF enableMinimalRuntime(dP)
                           THEN [f EXCEPT !.MinimalRuntimeDep = TRUE]
                           ELSE IF enableUbsanRuntime(dP)
                                THEN [f EXCEPT !.UbsanRuntimeDep = TRUE]
                                ELSE f
                 IN IF f1.MinimalRuntimeDep /\ f1.UbsanRuntimeDep
                    THEN [f |-> f1, descend |-> FALSE]
                    ELSE [f |-> IF c.os = "linux_glibc"
                                THEN [f1 EXCEPT !.BuiltinsDep = TRUE] ELSE f1,
                          descend |-> TRUE]
            ELSE [f |-> [f EXCEPT
                           !.MinimalRuntimeDep = @ \/ Fact(d, "Sanitize_minimal_dep"),
                           !.UbsanRuntimeDep = @ \/ Fact(d, "Sanitize_ubsan_dep")],
                  descend |-> FALSE]

\* WalkDeps: depth first in the order of the direct dependencies; the callback
\* is called for every edge it comes to, and a module is walked into the first
\* time the callback returns true for it (marked visited once walked)
RECURSIVE WalkDeps(_, _, _, _)
WalkDeps(c, f, todo, visited) ==
    IF todo = <<>> THEN [f |-> f, visited |-> visited]
    ELSE LET l == Head(todo)
             r == VisitDep(c, f, l)
             down == IF r.descend /\ l.dst \notin visited
                     THEN LET w == WalkDeps(c, r.f, SeqOfLinks(LinksFrom(l.dst)), visited)
                          IN [f |-> w.f, visited |-> w.visited \cup {l.dst}]
                     ELSE [f |-> r.f, visited |-> visited]
         IN WalkDeps(c, down.f, Tail(todo), down.visited)

\* lines 1259-1308: the properties sanitizerRuntimeDepsMutator leaves on copy k
sanitizerRuntimeDepsMutator(k) ==
    LET c == mctx[k[1]]
        P == copies[k].P
    IN IF c.role = "cc"
       THEN LET f == WalkDeps(c,
                        [MinimalRuntimeDep |-> P.MinimalRuntimeDep,
                         UbsanRuntimeDep |-> P.UbsanRuntimeDep,
                         BuiltinsDep |-> P.BuiltinsDep],
                        SeqOfLinks(LinksFrom(k)), {}).f
            IN [P EXCEPT !.MinimalRuntimeDep = f.MinimalRuntimeDep,
                         !.UbsanRuntimeDep = f.UbsanRuntimeDep,
                         !.BuiltinsDep = f.BuiltinsDep]
       ELSE P

\* lines 1319-1411: the -fsanitize list
SanitizerList(s) ==
    (IF Bool(s.All_undefined) THEN <<"undefined">>
     ELSE (IF Bool(s.Undefined)
           THEN <<"bool", "integer-divide-by-zero", "return", "returns-nonnull-attribute",
                  "shift-exponent", "unreachable", "vla-bound">>
           ELSE <<>>) \o s.Misc_undefined)
    \o (IF Bool(s.Address) THEN <<"address">> ELSE <<>>)
    \o (IF Bool(s.Hwaddress) THEN <<"hwaddress">> ELSE <<>>)
    \o (IF Bool(s.Thread) THEN <<"thread">> ELSE <<>>)
    \o (IF Bool(s.Safestack) THEN <<"safe-stack">> ELSE <<>>)
    \o (IF Bool(s.Cfi) THEN <<"cfi">> ELSE <<>>)
    \o (IF Bool(s.Integer_overflow)
        THEN <<"unsigned-integer-overflow", "signed-integer-overflow">> ELSE <<>>)
    \o (IF Bool(s.Scudo) THEN <<"scudo">> ELSE <<>>)
    \o (IF Bool(s.Scs) THEN <<"shadow-call-stack">> ELSE <<>>)
    \o (IF Bool(s.Fuzzer) THEN <<"fuzzer-no-link">> ELSE <<>>)

\* lines 1350-1388: the diagnostics list
DiagSanitizerList(s) ==
    (IF Bool(s.Diag_Undefined) THEN <<"undefined">> ELSE <<>>)
    \o s.Diag_Misc_undefined
    \o (IF Bool(s.Address) THEN <<"address">> ELSE <<>>)
    \o (IF Bool(s.Cfi) /\ Bool(s.Diag_Cfi) THEN <<"cfi">> ELSE <<>>)
    \o (IF Bool(s.Integer_overflow) /\ Bool(s.Diag_Integer_overflow)
        THEN <<"unsigned-integer-overflow", "signed-integer-overflow">> ELSE <<>>)

\* a runtime choice that ignores the diagnostics list
RuntimeLibraryNoDiag(c, P) ==
    LET s == P.Sanitize
    IN IF Bool(s.Address) THEN [lib |-> "asan", extra |-> <<>>]
       ELSE IF Bool(s.Thread) THEN [lib |-> "tsan", extra |-> <<>>]
       ELSE IF P.UbsanRuntimeDep \/ Bool(s.Fuzzer) \/ Bool(s.Undefined)
            THEN [lib |-> "ubsan", extra |-> <<>>]
       ELSE [lib |-> "", extra |-> <<>>]

\* a runtime choice that looks at thread before address and hwaddress
RuntimeLibraryThreadFirst(c, P) ==
    LET s == P.Sanitize
        diagSanitizers == IF Host(c) THEN SanitizerList(s) ELSE DiagSanitizerList(s)
    IN IF Bool(s.Thread) THEN [lib |-> "tsan", extra |-> <<>>]
       ELSE IF Bool(s.Address) THEN [lib |-> "asan", extra |-> <<>>]
       ELSE IF Bool(s.Hwaddress)
            THEN IF staticBinary(c) THEN [lib |-> "hwasan_static", extra |-> <<"libdl">>]
                 ELSE [lib |-> "hwasan", extra |-> <<>>]
       ELSE IF Bool(s.Scudo)
            THEN IF Len(diagSanitizers) = 0 /\ ~P.UbsanRuntimeDep
                 THEN [lib |-> "scudo_minimal", extra |-> <<>>]
                 ELSE [lib |-> "scudo", extra |-> <<>>]
       ELSE IF \/ Len(diagSanitizers) > 0 \/ P.UbsanRuntimeDep
               \/ Bool(s.Fuzzer) \/ Bool(s.Undefined) \/ Bool(s.All_undefined)
            THEN [lib |-> IF staticBinary(c) THEN "ubsan.static" ELSE "ubsan", extra |-> <<>>]
       ELSE [lib |-> "", extra |-> <<>>]

\* lines 1418-1452: the runtime library ("" when none) and its extra static deps
RuntimeLibrary(c, P) ==
    LET s == P.Sanitize
        diagSanitizers == IF Host(c) THEN SanitizerList(s) ELSE DiagSanitizerList(s)
    IN IF Bool(s.Address) THEN [lib |-> "asan", extra |-> <<>>]
       ELSE IF Bool(s.Hwaddress)
            THEN IF staticBinary(c) THEN [lib |-> "hwasan_static", extra |-> <<"libdl">>]
                 ELSE [lib |-> "hwasan", extra |-> <<>>]
       ELSE IF Bool(s.Thread) THEN [lib |-> "tsan", extra |-> <<>>]
       ELSE IF Bool(s.Scudo)
            THEN IF Len(diagSanitizers) = 0 /\ ~P.UbsanRuntimeDep
                 THEN [lib |-> "scudo_minimal", extra |-> <<>>]
                 ELSE [lib |-> "scudo", extra |-> <<>>]
       ELSE IF \/ Len(diagSanitizers) > 0 \/ P.UbsanRuntimeDep
               \/ Bool(s.Fuzzer) \/ Bool(s.Undefined) \/ Bool(s.All_undefined)
            THEN [lib |-> IF staticBinary(c) THEN "ubsan.static" ELSE "ubsan", extra |-> <<>>]
       ELSE [lib |-> "", extra |-> <<>>]

StaticDep(lib) == [lib |-> lib, form |-> "static"]
SharedDep(lib) == [lib |-> lib, form |-> "shared"]

\* dependencies where the main runtime is always added in shared form
RuntimeDepsSharedOnly(c, P) ==
    LET r == RuntimeLibrary(c, P)
    IN (IF enableMinimalRuntime(P) \/ P.MinimalRuntimeDep
        THEN <<StaticDep("ubsan_minimal")>> ELSE <<>>)
       \o (IF P.BuiltinsDep THEN <<StaticDep("builtins")>> ELSE <<>>)
       \o (IF r.lib # "" /\ (Bionic(c) \/ Musl(c) \/ P.UbsanRuntimeDep)
           THEN IF (~static(c) /\ ~Header(c)) \/ staticBinary(c) THEN <<SharedDep(r.lib)>>
                ELSE <<>>
           ELSE <<>>)

\* lines 1454-1530: the dependencies added, in the order they are added
RuntimeDeps(c, P) ==
    LET r == RuntimeLibrary(c, P)
    IN (IF enableMinimalRuntime(P) \/ P.MinimalRuntimeDep
        THEN <<StaticDep("ubsan_minimal")>> ELSE <<>>)
       \o (IF P.BuiltinsDep THEN <<StaticDep("builtins")>> ELSE <<>>)
       \o (IF r.lib # "" /\ (Bionic(c) \/ Musl(c) \/ P.UbsanRuntimeDep)
           THEN IF staticBinary(c)
                THEN <<StaticDep(r.lib)>> \o [i \in 1..Len(r.extra) |-> StaticDep(r.extra[i])]
                ELSE IF ~static(c) /\ ~Header(c) THEN <<SharedDep(r.lib)>>
                ELSE <<>>
           ELSE <<>>)

\* lines 1311-1532: the copy sanitizerRuntimeMutator leaves
sanitizerRuntimeMutator(c, cp) ==
    IF c.role = "cc" /\ ~Fact(c, "Disabled")
    THEN [cp EXCEPT !.P.Sanitizers = SanitizerList(cp.P.Sanitize),
                    !.P.DiagSanitizers = DiagSanitizerList(cp.P.Sanitize),
                    !.runtimeDeps = @ \o RuntimeDeps(c, cp.P)]
    ELSE cp

\* the Make class of a module kind
MkClass(c) ==
    CASE c.kind = "static" -> "STATIC_LIBRARIES"
      [] c.kind = "header" -> "HEADER_LIBRARIES"
      [] c.kind = "shared" -> "SHARED_LIBRARIES"
      [] OTHER -> "EXECUTABLES"

\* Make entries with no suffix for shadow-call-stack
AndroidMkEntriesNoScs(c, P, SubName) ==
    IF MkClass(c) \in {"STATIC_LIBRARIES", "HEADER_LIBRARIES"}
    THEN SubName \o (IF Bool(P.Sanitize.Cfi) THEN ".cfi" ELSE "")
                 \o (IF Bool(P.Sanitize.Hwaddress) THEN ".hwasan" ELSE "")
    ELSE SubName

\* lines 850-864: the SubName of the Make entries of a module
AndroidMkEntries(c, P, SubName) ==
    IF MkClass(c) \in {"STATIC_LIBRARIES", "HEADER_LIBRARIES"}
    THEN SubName \o (IF Bool(P.Sanitize.Cfi) THEN ".cfi" ELSE "")
                 \o (IF Bool(P.Sanitize.Hwaddress) THEN ".hwasan" ELSE "")
                 \o (IF Bool(P.Sanitize.Scs) THEN ".scs" ELSE "")
    ELSE SubName

\* the top-down runtime-deps mutator on the copies of module m, after the
\* last split pass and after the modules that depend on m
RuntimeDepsModule(m) ==
    /\ \/ phase = "runtimeDeps" /\ m \notin done
       \/ phase = "bottomup" /\ pass = Len(TransitionOrder) /\ done = Modules
    /\ LET before == IF phase = "runtimeDeps" THEN done ELSE {}
       IN /\ \A e \in edges : e.dst = m => e.src \in before
          /\ done' = before \cup {m}
    /\ copies' = [k \in DOMAIN copies |->
                    IF k[1] = m THEN [copies[k] EXCEPT !.P = sanitizerRuntimeDepsMutator(k)]
                    ELSE copies[k]]
    /\ phase' = "runtimeDeps"
    /\ UNCHANGED <<mctx, decl, errors, begun, firstRun, edges, links, pass, staticLibs, apart>>

\* the bottom-up runtime mutator on the copies of module m
RuntimeModule(m) ==
    /\ \/ phase = "runtime" /\ m \notin done
       \/ phase = "runtimeDeps" /\ done = Modules
    /\ LET before == IF phase = "runtime" THEN done ELSE {}
       IN /\ \A e \in edges : e.src = m => e.dst \in before
          /\ done' = before \cup {m}
    /\ copies' = [k \in DOMAIN copies |->
                    IF k[1] = m THEN sanitizerRuntimeMutator(mctx[m], copies[k])
                    ELSE copies[k]]
    /\ phase' = "runtime"
    /\ UNCHANGED <<mctx, decl, errors, begun, firstRun, edges, links, pass, staticLibs, apart>>

(***************************************************************************)
(* sanitize.flags: the compiler, assembler and linker flags of a module.   *)
(***************************************************************************)
asanCflags == <<"-fno-omit-frame-pointer">>
asanLdflags == <<"-Wl,-u,__asan_preinit">>
hwasanCflags ==
    <<"-fno-omit-frame-pointer", "-Wno-frame-larger-than=",
      "-fsanitize-hwaddress-abi=platform", "-mllvm", "-hwasan-use-after-scope=1">>
hwasanCommonflags ==
    <<"-instcombine-lower-dbg-declare=0", "--aarch64-enable-global-isel-at-O=-1",
      "-fast-isel=false">>
cfiCflags ==
    <<"-flto", "-fsanitize-cfi-cross-dso",
      "-fsanitize-blacklist=external/compiler-rt/lib/cfi/cfi_blocklist.txt">>
cfiAsflags == <<"-flto", "-fvisibility=default">>
cfiLdflags == <<"-flto", "-fsanitize-cfi-cross-dso", "-fsanitize=cfi", "-Wl,-plugin-opt,O1">>
intOverflowCflags ==
    <<"-fsanitize-blacklist=build/soong/cc/config/integer_overflow_blocklist.txt">>
minimalRuntimeFlags ==
    <<"-fsanitize-minimal-runtime", "-fno-sanitize-trap=integer,undefined",
      "-fno-sanitize-recover=integer,undefined">>
memtagStackCommonFlags == <<"-march=armv8-a+memtag">>

\* strings.Join
RECURSIVE Join(_, _)
Join(list, sep) ==
    IF list = <<>> THEN ""
    ELSE IF Len(list) = 1 THEN list[1]
    ELSE list[1] \o sep \o Join(Tail(list), sep)

\* the flags of a build that start with -fsanitize and contain "integer"
IntegerFlags(P) ==
    {intOverflowCflags[1], Join(minimalRuntimeFlags, " ")}
    \cup {"-fsanitize=" \o Join(P.Sanitizers, ",") :
            x \in {n \in Range(P.Sanitizers) :
                      n \in {"unsigned-integer-overflow", "signed-integer-overflow",
                             "integer-divide-by-zero", "integer"}}}

\* lines 615-629 and 631-645: no flag names the check, and some -fsanitize
\* flag contains "integer" (no input flag of the model names either check)
toDisableImplicitIntegerChange(P, cflags) ==
    /\ ~inList("-fno-sanitize=implicit-integer-sign-change", cflags)
    /\ \E f \in Range(cflags) : f \in IntegerFlags(P)

toDisableUnsignedShiftBaseChange(P, cflags) ==
    /\ ~inList("-fno-sanitize=unsigned-shift-base", cflags)
    /\ \E f \in Range(cflags) : f \in IntegerFlags(P)

NumFlagsBlocks == 8

\* a fuzzer block that leaves the -flto of the linker flags in place
FuzzerFlagsKeepLdLto(fl) ==
    [fl EXCEPT
       !.CFlags = removeFromList("-flto", @ \o <<"-fsanitize=fuzzer-no-link">>)[2]
                  \o <<"-fno-lto", "-fno-sanitize-coverage=stack-depth", "-U_FORTIFY_SOURCE">>,
       !.LdFlags = @ \o <<"-fno-lto", "-fno-sanitize-coverage=stack-depth",
                          "-Wl,-rpath,\\$$ORIGIN">>]

\* lines 697-724: the block of fuzzer
FuzzerFlags(fl) ==
    [fl EXCEPT
       !.CFlags = removeFromList("-flto", @ \o <<"-fsanitize=fuzzer-no-link">>)[2]
                  \o <<"-fno-lto", "-fno-sanitize-coverage=stack-depth", "-U_FORTIFY_SOURCE">>,
       !.LdFlags = removeFromList("-flto", @)[2]
                   \o <<"-fno-lto", "-fno-sanitize-coverage=stack-depth",
                        "-Wl,-rpath,\\$$ORIGIN">>]

\* the blocks of flags() after the early return, in source order; the
\* properties recover, diag.no_recover, blocklist and config.cfi_assembly_support
\* are not declared by the modules of the model, nor is bootstrap or Sdclang
FlagsBlock(i, c, P, fl) ==
    LET s == P.Sanitize
    IN CASE i = 1 ->    \* lines 652-680
              IF ~Bool(s.Address) THEN fl
              ELSE [fl EXCEPT
                      !.RequiredInstructionSet = IF c.arch = "arm" THEN "arm" ELSE @,
                      !.CFlags = @ \o asanCflags
                                 \o (IF Bool(s.Writeonly)
                                     THEN <<"-mllvm", "-asan-instrument-reads=0">> ELSE <<>>)
                                 \o (IF Host(c) THEN <<>> ELSE <<"-mllvm", "-asan-globals=0">>),
                      !.LdFlags = @ \o asanLdflags
                                  \o (IF Host(c) THEN <<"-Wl,--no-as-needed">> ELSE <<>>),
                      !.DynamicLinker =
                          IF Host(c) THEN @
                          ELSE "/system/bin/linker_asan" \o (IF Is64Bit(c) THEN "64" ELSE "")]
        [] i = 2 ->    \* lines 682-695
              IF ~Bool(s.Hwaddress) THEN fl
              ELSE [fl EXCEPT
                      !.CFlags = @ \o hwasanCflags
                                 \o <<"-mllvm", hwasanCommonflags[1], "-mllvm",
                                      hwasanCommonflags[2], "-mllvm", hwasanCommonflags[3]>>
                                 \o (IF Bool(s.Writeonly)
                                     THEN <<"-mllvm", "-hwasan-instrument-reads=0">> ELSE <<>>),
                      !.LdFlags = @ \o [j \in 1..Len(hwasanCommonflags) |->
                                          "-Wl,-mllvm," \o hwasanCommonflags[j]]]
        [] i = 3 ->    \* lines 697-724
              IF ~Bool(s.Fuzzer) THEN fl ELSE FuzzerFlags(fl)
        [] i = 4 ->    \* lines 726-749
              IF ~Bool(s.Cfi) THEN fl
              ELSE LET cflags == fl.CFlags \o cfiCflags
                                 \o (IF inList("-fvisibility=hidden", fl.CFlags \o cfiCflags)
                                     THEN <<>> ELSE <<"-fvisibility=default">>)
                       ldflags == fl.LdFlags \o cfiLdflags
                   IN [fl EXCEPT
                         !.RequiredInstructionSet = IF c.arch = "arm" THEN "thumb" ELSE @,
                         !.AsFlags = @ \o cfiAsflags,
                         !.CFlags = IF staticBinary(c)
                                    THEN removeFromList("-fsanitize-cfi-cross-dso", cflags)[2]
                                    ELSE cflags,
                         !.LdFlags = IF staticBinary(c)
                                     THEN removeFromList("-fsanitize-cfi-cross-dso", ldflags)[2]
                                     ELSE ldflags]
        [] i = 5 ->    \* lines 751-760
              IF ~Bool(s.Memtag_stack) THEN fl
              ELSE [fl EXCEPT
                      !.CFlags = @ \o memtagStackCommonFlags \o <<"-Wno-error=frame-larger-than">>,
                      !.AsFlags = @ \o memtagStackCommonFlags,
                      !.LdFlags = @ \o memtagStackCommonFlags \o <<"-Wl,--no-fatal-warnings">>]
        [] i = 6 ->    \* lines 773-775
              IF ~Bool(s.Integer_overflow) THEN fl
              ELSE [fl EXCEPT !.CFlags = @ \o intOverflowCflags]
        [] i = 7 ->    \* lines 777-823
              IF Len(P.Sanitizers) = 0 THEN fl
              ELSE LET sanitizeArg == "-fsanitize=" \o Join(P.Sanitizers, ",")
                       cflags ==
                          fl.CFlags \o <<sanitizeArg>>
                          \o (IF Bionic(c) THEN <<>> ELSE <<"-fno-sanitize=vptr,function">>)
                          \o (IF Bool(s.Fuzzer)
                              THEN <<"-fno-sanitize-trap=all", "-fno-sanitize-recover=all">>
                              ELSE IF Host(c) THEN <<"-fno-sanitize-recover=all">>
                              ELSE <<"-fsanitize-trap=all", "-ftrap-function=abort">>)
                          \o (IF enableMinimalRuntime(P)
                              THEN <<Join(minimalRuntimeFlags, " ")>> ELSE <<>>)
                       cflags2 ==
                          cflags \o (IF toDisableImplicitIntegerChange(P, cflags)
                                     THEN <<"-fno-sanitize=implicit-integer-sign-change">>
                                     ELSE <<>>)
                   IN [fl EXCEPT
                         !.CFlags = cflags2
                                    \o (IF toDisableUnsignedShiftBaseChange(P, cflags2)
                                        THEN <<"-fno-sanitize=unsigned-shift-base">> ELSE <<>>),
                         !.AsFlags = @ \o <<sanitizeArg>>,
                         !.LdFlags = @ \o <<sanitizeArg>>
                                     \o (IF Bionic(c) \/ Musl(c)
                                         THEN <<"-fno-sanitize-link-runtime">> ELSE <<>>),
                         !.GlobalLdFlags = IF Bionic(c) \/ Musl(c) THEN @
                                           ELSE removeFromList("-Wl,--no-undefined", @)[2]]
        [] i = 8 ->    \* lines 825-827
              IF Len(P.DiagSanitizers) = 0 THEN fl
              ELSE [fl EXCEPT
                      !.CFlags = @ \o <<"-fno-sanitize-trap=" \o Join(P.DiagSanitizers, ",")>>]

RECURSIVE FlagsUpTo(_, _, _, _)
FlagsUpTo(n, c, P, fl) ==
    IF n = 0 THEN fl
    ELSE CHOOSE next \in {FlagsBlock(n, c, P, prev) : prev \in {FlagsUpTo(n - 1, c, P, fl)}} :
            TRUE

\* flags without the early return of lines 648-650
flagsWithoutEarlyReturn(c, P, fl) == FlagsUpTo(NumFlagsBlocks, c, P, fl)

\* lines 647-848
flags(c, P, fl) ==
    IF ~P.SanitizerEnabled /\ ~P.UbsanRuntimeDep THEN fl
    ELSE FlagsUpTo(NumFlagsBlocks, c, P, fl)

\* the flags a module comes to sanitize.flags with: none, or link-time
\* optimisation asked for more than once and hidden visibility
InputFlags ==
    {NoFlags,
     [NoFlags EXCEPT !.CFlags = <<"-flto", "-fvisibility=hidden", "-flto">>,
                     !.LdFlags = <<"-flto", "-Wl,--no-undefined">>,
                     !.GlobalLdFlags = <<"-Wl,--no-undefined">>]}

\* the build actions of module m, generated once the mutators have finished
\* and after those of the modules it depends on: each enabled cc copy gets
\* the flags of sanitize.flags
GenerateBuildActions(m) ==
    /\ \/ phase = "build" /\ m \notin done
       \/ phase = "runtime" /\ done = Modules
    /\ LET before == IF phase = "build" THEN done ELSE {}
       IN /\ \A e \in edges : e.src = m => e.dst \in before
          /\ done' = before \cup {m}
    /\ \E fl \in InputFlags :
          copies' = [k \in DOMAIN copies |->
                       IF k[1] = m /\ mctx[m].role = "cc" /\ ~Fact(mctx[m], "Disabled")
                       THEN [copies[k] EXCEPT !.flags = flags(mctx[m], copies[k].P, fl)]
                       ELSE copies[k]]
    /\ phase' = "build"
    /\ UNCHANGED <<mctx, decl, errors, begun, firstRun, edges, links, pass, staticLibs, apart>>

\* lines 1682-1688: cfiMakeVarsProvider and hwasanMakeVarsProvider, which run
\* once the build actions have been generated
MakeVarsProvider ==
    /\ phase = "build"
    /\ done = Modules
    /\ makeVars' = [t \in {cfi, Hwasan} |-> exportToMake(t, staticLibs[t])]
    /\ staticLibs' = [t \in {cfi, Hwasan} |-> sortLibs(staticLibs[t])]
    /\ phase' = "make"
    /\ UNCHANGED <<mctx, decl, copies, errors, begun, firstRun, edges, links, pass, done,
                   called, adding, libsMapLock>>

(***************************************************************************)
(* The begin mutator.                                                      *)
(***************************************************************************)
\* sanitize.begin runs on module m (modules with a sanitize feature only)
Begin(m) ==
    /\ phase = "load"
    /\ begun[m] = 0
    /\ \A e \in edges : e.src = m => begun[e.dst] # 0
    /\ LET r == IF mctx[m].role = "cc"
                THEN begin(copies[Root(m)].P, mctx[m])
                ELSE [P |-> copies[Root(m)].P, errs |-> <<>>]
       IN /\ copies' = [copies EXCEPT ![Root(m)].P = r.P]
          /\ errors' = [errors EXCEPT ![m] = @ \o r.errs]
          /\ firstRun' = [firstRun EXCEPT ![m] = r.P]
    /\ begun' = [begun EXCEPT ![m] = 1]
    /\ UNCHANGED <<phase, mctx, decl, edges, links, pass, done, staticLibs, apart>>

\* begin() applied to the already resolved policy, same configuration and facts
BeginAgain(m) ==
    /\ phase = "load"
    /\ begun[m] = 1
    /\ mctx[m].role = "cc"
    /\ LET r == begin(copies[Root(m)].P, mctx[m])
       IN /\ copies' = [copies EXCEPT ![Root(m)].P = r.P]
          /\ errors' = [errors EXCEPT ![m] = @ \o r.errs]
    /\ begun' = [begun EXCEPT ![m] = 2]
    /\ UNCHANGED <<phase, mctx, decl, firstRun, edges, links, pass, done, staticLibs, apart>>

(***************************************************************************)
(* Policy resolution of one module: begin(), and begin() applied again to  *)
(* the policy it resolved.                                                 *)
(***************************************************************************)
\* the opt-out of the declaration is crossed with the other inputs
BeginInputs ==
    Inputs \cup {[inp EXCEPT !.d.Never = "true"] : inp \in Inputs}

InitBegin ==
    /\ phase = "load"
    /\ \E inp \in BeginInputs :
          /\ mctx = [m \in {1} |-> inp.c]
          /\ decl = [m \in {1} |-> inp.d]
          /\ copies = [k \in {Root(1)} |-> NewCopy([EmptyProperties EXCEPT !.Sanitize = inp.d])]
    /\ errors = [m \in {1} |-> <<>>]
    /\ begun = [m \in {1} |-> 0]
    /\ firstRun = [m \in {1} |-> EmptyProperties]
    /\ edges = {}
    /\ links = {}
    /\ pass = 0
    /\ done = {}
    /\ staticLibs = [t \in {cfi, Hwasan} |-> newSanitizerStaticLibsMap]
    /\ called = NoCall
    /\ adding = <<>>
    /\ libsMapLock = 0
    /\ makeVars = <<>>

NextBegin == \E m \in DOMAIN mctx : Begin(m) \/ BeginAgain(m)

SpecBegin == InitBegin /\ [][NextBegin]_vars

(***************************************************************************)
(* A dependency graph taken through begin(), the six split passes and the  *)
(* two runtime mutators.                                                   *)
(***************************************************************************)
\* a module of the graph: facts, declared sanitize block and, for an APEX,
\* the sanitizers the configuration enables for it
Mod(role, kind, d) ==
    [c |-> [DefaultCtx(kind) EXCEPT !.role = role], d |-> d, apex |-> {}]

Declare(d, f, v) == [d EXCEPT ![f] = v]

\* no sanitizer requested, or sanitizer t requested
Requests(t) == IF t = "none" THEN EmptyUserProps
               ELSE Declare(EmptyUserProps, SanitizerField(t), "true")

SplitModes == Range(TransitionOrder)

\* the dependents: cc binaries, shared and static libraries, an APEX, a JNI
\* user and a module of no sanitizer interface
Sources ==
    {Mod("cc", kind, Requests(t)) : kind \in {"binary", "shared", "static"},
                                    t \in SplitModes \cup {"none"}}
    \cup {[Mod("apex", "shared", EmptyUserProps) EXCEPT !.apex = a] :
            a \in {{}} \cup {{t} : t \in SplitModes}}
    \cup {Mod("jni", "shared", EmptyUserProps), Mod("other", "shared", EmptyUserProps)}

\* the sanitizer a dependent asks for ("none" when it asks for none)
Asked(s) ==
    IF s.apex # {} THEN CHOOSE t \in s.apex : TRUE
    ELSE IF \E t \in SplitModes : s.d[SanitizerField(t)] = "true"
         THEN CHOOSE t \in SplitModes : s.d[SanitizerField(t)] = "true"
         ELSE "none"

\* the declarations of a dependency under a dependent asking for t
TargetDecls(t) ==
    LET fields == IF t = "none" THEN {SanitizerField(u) : u \in SplitModes}
                  ELSE {SanitizerField(t)}
        one == {EmptyUserProps}
               \cup {Declare(EmptyUserProps, f, v) : f \in fields, v \in {"true", "false"}}
               \cup (IF t \in {Asan, Hwasan, Fuzzer}
                     THEN {Declare(EmptyUserProps, "Cfi", "true")} ELSE {})
               \cup (IF t = "none"
                     THEN {Declare(EmptyUserProps, "Integer_overflow", "true"),
                           Declare(Declare(EmptyUserProps, "Integer_overflow", "true"),
                                   "Diag_Integer_overflow", "true")}
                     ELSE {})
    IN one \cup {Declare(d, "Never", "true") : d \in one}

Edge(s, d, tag) == [src |-> s, dst |-> d, tag |-> tag]

\* one dependent and one dependency, over every tag
ChainGraphs ==
    UNION {{[mods |-> <<s, Mod("cc", kind, d)>>, edges |-> {Edge(1, 2, tag)}] :
               kind \in Kinds, tag \in Tags, d \in TargetDecls(Asked(s))} :
           s \in Sources}

\* a dependent on a snapshot library that has or lacks a cfi variant
SnapshotGraphs ==
    {[mods |-> <<Mod("cc", "binary", Requests(t)),
                 [Mod("ccNoSan", kind, EmptyUserProps) EXCEPT !.c.snapshot = sn]>>,
      edges |-> {Edge(1, 2, "library")}] :
        t \in {"none", cfi, Hwasan}, kind \in {"static", "shared"}, sn \in {{}, {cfi}}}

\* a binary asking for nothing or for cfi on a static library of the vendor
\* image, which is a candidate of the vendor snapshot
VendorGraphs ==
    {[mods |-> <<Mod("cc", "binary", Requests(t)),
                 [Mod("cc", "static", d) EXCEPT !.c.facts = @ \cup fs]>>,
      edges |-> {Edge(1, 2, "library")}] :
        t \in {"none", cfi}, d \in TargetDecls(cfi),
        fs \in {{"InVendor"}, {"InVendor", "VendorProprietary"}, {"InVendor", "IsPrebuilt"}}}

\* the same library where begin() clears its cfi field: the VNDK variant, a
\* build with CFI disabled, a path excluded from CFI
VendorPrunedGraphs ==
    {[mods |-> <<[Mod("cc", "binary", Requests(t)) EXCEPT !.c.facts = @ \cup ({f} \cap {"DisableCFI"})],
                 [Mod("cc", "static", d) EXCEPT !.c.facts = @ \cup {"InVendor", f}]>>,
      edges |-> {Edge(1, 2, "library")}] :
        t \in {"none", cfi},
        d \in {EmptyUserProps, Declare(EmptyUserProps, "Cfi", "false")},
        f \in {"vndkVariant", "DisableCFI", "CFIDisabledForPath"}}

\* two dependents of one library: a binary asking for t and a binary or
\* static library asking for nothing
FanGraphs ==
    UNION {{[mods |-> <<Mod("cc", "binary", Requests(t)), Mod("cc", k2, EmptyUserProps),
                        Mod("cc", kind, d)>>,
             edges |-> {Edge(1, 3, "library"), Edge(2, 3, "library")}] :
               kind \in Kinds, k2 \in {"binary", "static"}, d \in TargetDecls(t)} :
           t \in SplitModes}

\* one module with undefined-behaviour checks declared, on device and host
RuntimeDecls ==
    {[EmptyUserProps EXCEPT !.Integer_overflow = io, !.Diag_Integer_overflow = diag,
                            ![f] = "true"] :
        io \in {"nil", "true"}, diag \in {"nil", "true"},
        f \in {"Integer_overflow", "Address", "Hwaddress", "Thread", "Scudo", "Undefined"}}

SingleGraphs ==
    {[mods |-> <<[Mod("cc", kind, d) EXCEPT !.c.os = os, !.c.facts = @ \cup dis]>>,
      edges |-> {}] :
        kind \in Kinds, d \in RuntimeDecls,
        os \in {"android", "linux_glibc", "linux_musl", "darwin"}, dis \in {{}, {"Disabled"}}}

\* a host binary asking for a sanitizer incompatible with cfi, or for none,
\* on a host library that declares cfi or nothing
HostGraphs ==
    {[mods |-> <<[Mod("cc", "binary", Requests(t)) EXCEPT !.c.os = "linux_glibc"],
                 [Mod("cc", kind, d) EXCEPT !.c.os = "linux_glibc"]>>,
      edges |-> {Edge(1, 2, "library")}] :
        t \in {"none", Asan, Fuzzer}, kind \in {"static", "shared"},
        d \in {EmptyUserProps, Declare(EmptyUserProps, "Cfi", "true")}}

\* the image and the architecture of a module
Placed(mod, image, arch) ==
    [mod EXCEPT !.c.arch = arch,
                !.c.facts = IF image = "vendor" THEN @ \cup {"InVendor", "VendorProprietary"} ELSE @]

\* a binary asking for cfi or hwasan on two static libraries of any image
\* and architecture, the second one possibly not exported to Make
ExportGraphs ==
    {[mods |-> <<Mod("cc", "binary", Requests(t)),
                 Placed(Mod("cc", "static", EmptyUserProps), i2, a2),
                 [Placed(Mod("cc", "static", EmptyUserProps), i3, a3)
                     EXCEPT !.c.facts = @ \ hidden]>>,
      edges |-> {Edge(1, 2, "library"), Edge(1, 3, "library")}] :
        t \in {cfi, Hwasan}, i2 \in {"core", "vendor"}, a2 \in {"arm64", "x86_64"},
        i3 \in {"core", "vendor"}, a3 \in {"arm64", "x86_64"},
        hidden \in {{}, {"ExportedToMake"}}}

\* one module that declares two of the modes that select a runtime library
RuntimeModes == {"Address", "Hwaddress", "Thread", "Scudo", "Undefined", "Fuzzer"}

PriorityGraphs ==
    {[mods |-> <<[Mod("cc", kind, Declare(Declare(EmptyUserProps, f, "true"), g, "true"))
                     EXCEPT !.c.os = os]>>,
      edges |-> {}] :
        kind \in {"binary", "staticBinary", "shared"}, f \in RuntimeModes,
        g \in RuntimeModes, os \in {"android", "linux_musl"}}

\* one module that declares a check of the overflow and undefined family
\* together with one other mode or one diagnostic form
MinimalDecls ==
    LET family == {Declare(EmptyUserProps, f, "true") :
                      f \in {"Integer_overflow", "Undefined", "All_undefined"}}
                  \cup {Declare(EmptyUserProps, "Misc_undefined", <<"bounds">>)}
        other == {Declare(d, f, "true") :
                     d \in family,
                     f \in {"Address", "Hwaddress", "Fuzzer", "Thread", "Cfi",
                            "Diag_Integer_overflow", "Diag_Cfi", "Diag_Undefined",
                            "Diag_Memtag_heap"}}
                 \cup {Declare(d, "Diag_Misc_undefined", <<"bounds">>) : d \in family}
    IN family \cup other \cup {Declare(d, "Diag_Cfi", "true") : d \in other}

MinimalGraphs ==
    {[mods |-> <<Mod("cc", kind, d)>>, edges |-> {}] :
        kind \in {"binary", "shared", "static"}, d \in MinimalDecls}

\* the dependencies the runtime-dependency walk tells apart: static and
\* shared libraries with no check, with integer_overflow and with its
\* diagnostic form, and static snapshot libraries with their recorded flags
WalkedMods ==
    {Mod("cc", kind, d) :
        kind \in {"static", "shared"},
        d \in {EmptyUserProps, Declare(EmptyUserProps, "Integer_overflow", "true"),
               Declare(Declare(EmptyUserProps, "Integer_overflow", "true"),
                       "Diag_Integer_overflow", "true")}}
    \cup {[Mod("ccNoSan", "static", EmptyUserProps) EXCEPT !.c.facts = @ \cup fs] :
            fs \in {{}, {"Sanitize_minimal_dep"}, {"Sanitize_minimal_dep", "Sanitize_ubsan_dep"}}}

\* a binary on two dependencies, side by side or in a chain
WalkGraphs ==
    {[mods |-> [i \in 1..3 |->
                  [(<<Mod("cc", "binary", EmptyUserProps), m2, m3>>)[i] EXCEPT !.c.os = os]],
      edges |-> {Edge(1, 2, t2), Edge(from, 3, t3)}] :
        os \in {"android", "linux_glibc"}, m2 \in WalkedMods, m3 \in WalkedMods,
        from \in {1, 2}, t2 \in {"library", "other"}, t3 \in {"library", "other"}}

\* a binary asking for address or hwaddress on a library that declares the
\* other of the two
MixedGraphs ==
    {[mods |-> <<Mod("cc", "binary", Requests(t)),
                 Mod("cc", kind, Requests(IF t = Asan THEN Hwasan ELSE Asan))>>,
      edges |-> {Edge(1, 2, "library")}] :
        t \in {Asan, Hwasan}, kind \in {"static", "shared"}}

\* a binary asking for two modes on a static or header library
SuffixGraphs ==
    {[mods |-> <<Mod("cc", "binary", Declare(Declare(EmptyUserProps, f, "true"), g, "true")),
                 Mod("cc", kind, EmptyUserProps)>>,
      edges |-> {Edge(1, 2, "library")}] :
        f \in {"Scs", "Cfi", "Hwaddress", "Address"},
        g \in {"Scs", "Cfi", "Hwaddress", "Address"}, kind \in {"static", "header"}}

Graphs ==
    SuffixGraphs \cup MixedGraphs \cup WalkGraphs \cup MinimalGraphs \cup ChainGraphs \cup SnapshotGraphs \cup VendorGraphs \cup VendorPrunedGraphs \cup FanGraphs \cup SingleGraphs
    \cup HostGraphs \cup ExportGraphs \cup PriorityGraphs

\* the state after the modules of one graph of G have been loaded
InitOf(G) ==
    /\ phase = "load"
    /\ \E g \in G :
          LET ids == DOMAIN g.mods
          IN /\ mctx = [m \in ids |-> g.mods[m].c]
             /\ decl = [m \in ids |-> g.mods[m].d]
             /\ copies = [k \in {Root(m) : m \in ids} |->
                            [NewCopy([EmptyProperties EXCEPT !.Sanitize = g.mods[k[1]].d])
                               EXCEPT !.apexSanitizers = g.mods[k[1]].apex]]
             /\ errors = [m \in ids |-> <<>>]
             /\ begun = [m \in ids |-> 0]
             /\ firstRun = [m \in ids |-> EmptyProperties]
             /\ edges = g.edges
             /\ links = {[src |-> Root(e.src), dst |-> Root(e.dst), tag |-> e.tag] :
                            e \in g.edges}
    /\ pass = 0
    /\ done = {}
    /\ staticLibs = [t \in {cfi, Hwasan} |-> newSanitizerStaticLibsMap]
    /\ called = NoCall
    /\ adding = <<>>
    /\ libsMapLock = 0
    /\ makeVars = <<>>

InitGraph == InitOf(Graphs)

NextGraph ==
    \/ \E m \in Modules : Begin(m)
    \/ MarkApexes
    \/ TopDown
    \/ \E m \in Modules : MutateModule(m)
    \/ \E m \in Modules : RuntimeDepsModule(m)
    \/ \E m \in Modules : RuntimeModule(m)
    \/ \E m \in Modules : GenerateBuildActions(m)
    \/ MakeVarsProvider

SpecGraph == InitGraph /\ [][NextGraph]_vars

\* the whole transform under the build's scheduling: the mutators and the
\* providers are run one after the other by a driver that does not stop while
\* a step is left to do
LiveGraphs ==
    SnapshotGraphs
    \cup {g \in SuffixGraphs : g.mods[1].d.Scs = "true" /\ g.mods[1].d.Cfi = "true"}
    \cup {g \in WalkGraphs :
            /\ g.mods[1].c.os = "android"
            /\ \A e \in g.edges : e.tag = "library"
            /\ \A i \in {2, 3} : /\ g.mods[i].c.role = "cc"
                                 /\ g.mods[i].c.kind = "static"
                                 /\ g.mods[i].d.Integer_overflow = "true"}

InitLive == InitOf(LiveGraphs)

SpecLive == InitLive /\ [][NextGraph]_vars /\ WF_vars(NextGraph)

(***************************************************************************)
(* The per-sanitizer queries called on their own, with any value of the    *)
(* int type SanitizerType.  A panic ends the run: no call follows it.      *)
(***************************************************************************)
\* number of queries made in one run
MaxCalls == 2

AnyType == SanitizerTypes \cup UnknownTypes

\* the guard of every query: the run has not panicked
CanCall == phase = "query" /\ ~called.panicked /\ called.n < MaxCalls

Called(fn, t, b, panicked) ==
    called' = [fn |-> fn, t |-> t, b |-> b, panicked |-> panicked, n |-> called.n + 1]

QueryVariationName(t) ==
    /\ CanCall
    /\ Called("variationName", t, FALSE, variationName(t) = Panic)
    /\ UNCHANGED <<phase, mctx, decl, copies, errors, begun, firstRun, edges, links,
                   pass, done, staticLibs, adding, libsMapLock, makeVars>>

QueryName(t) ==
    /\ CanCall
    /\ Called("name", t, FALSE, name(t) = Panic)
    /\ UNCHANGED <<phase, mctx, decl, copies, errors, begun, firstRun, edges, links,
                   pass, done, staticLibs, adding, libsMapLock, makeVars>>

QueryRegisterMutators(t) ==
    /\ CanCall
    /\ Called("registerMutators", t, FALSE, registerMutators(t) = <<Panic>>)
    /\ UNCHANGED <<phase, mctx, decl, copies, errors, begun, firstRun, edges, links,
                   pass, done, staticLibs, adding, libsMapLock, makeVars>>

\* SanitizerSupported has no panic in any branch
QuerySanitizerSupported(t) ==
    /\ CanCall
    /\ Called("SanitizerSupported", t, SanitizerSupported(t), FALSE)
    /\ UNCHANGED <<phase, mctx, decl, copies, errors, begun, firstRun, edges, links,
                   pass, done, staticLibs, adding, libsMapLock, makeVars>>

QueryGetSanitizerBoolPtr(t) ==
    /\ CanCall
    /\ Called("getSanitizerBoolPtr", t, FALSE, getSanitizerBoolPtr(copies[Root(1)].P, t) = Panic)
    /\ UNCHANGED <<phase, mctx, decl, copies, errors, begun, firstRun, edges, links,
                   pass, done, staticLibs, adding, libsMapLock, makeVars>>

QuerySetSanitizer(t, b) ==
    /\ CanCall
    /\ LET r == SetSanitizer(copies[Root(1)].P, t, b)
       IN IF "panic" \in DOMAIN r
          THEN Called("SetSanitizer", t, b, TRUE) /\ UNCHANGED copies
          ELSE Called("SetSanitizer", t, b, FALSE)
               /\ copies' = [copies EXCEPT ![Root(1)].P = r]
    /\ UNCHANGED <<phase, mctx, decl, errors, begun, firstRun, edges, links,
                   pass, done, staticLibs, adding, libsMapLock, makeVars>>

\* the policies the queries are made on: one declared option at most
QueryDecls ==
    {EmptyUserProps} \cup
    {[EmptyUserProps EXCEPT ![SanitizerField(t)] = v] : t \in SanitizerTypes, v \in {"true", "false"}}

InitQuery ==
    /\ phase = "query"
    /\ \E d \in QueryDecls :
          /\ decl = [m \in {1} |-> d]
          /\ copies = [k \in {Root(1)} |-> NewCopy([EmptyProperties EXCEPT !.Sanitize = d])]
    /\ mctx = [m \in {1} |-> DefaultCtx("static")]
    /\ errors = [m \in {1} |-> <<>>]
    /\ begun = [m \in {1} |-> 0]
    /\ firstRun = [m \in {1} |-> EmptyProperties]
    /\ edges = {}
    /\ links = {}
    /\ pass = 0
    /\ done = {}
    /\ staticLibs = [t \in {cfi, Hwasan} |-> newSanitizerStaticLibsMap]
    /\ called = NoCall
    /\ adding = <<>>
    /\ libsMapLock = 0
    /\ makeVars = <<>>

NextQuery ==
    \E t \in AnyType :
        \/ QueryVariationName(t)
        \/ QueryName(t)
        \/ QueryRegisterMutators(t)
        \/ QuerySanitizerSupported(t)
        \/ QueryGetSanitizerBoolPtr(t)
        \/ \E b \in BOOLEAN : QuerySetSanitizer(t, b)

SpecQuery == InitQuery /\ [][NextQuery]_vars

(***************************************************************************)
(* Concurrent calls of add on one sanitizerStaticLibsMap (that of cfi),    *)
(* made by the Mutate calls of a pass, which run on several goroutines.    *)
(* A caller goes through call, locked, read, append, unlock, done.         *)
(***************************************************************************)
\* number of concurrent callers of add
NumAdders == 3

\* number of distinct module names they add
NumNames == 2

Adders == 1..NumAdders

\* line 1601: Lock() without waiting for the holder
CanLockAlways(holder) == TRUE

\* line 1601: Lock() returns only when nobody holds the lock
CanLock(holder) == holder = 0

SetAdding(id, pc) == adding' = [adding EXCEPT ![id].pc = pc]

\* lines 1598-1601: image and arch are computed, then the lock is taken
AddLock(id) ==
    /\ phase = "add"
    /\ adding[id].pc = "call"
    /\ CanLock(libsMapLock)
    /\ libsMapLock' = id
    /\ SetAdding(id, "locked")
    /\ UNCHANGED <<phase, mctx, decl, copies, errors, begun, firstRun, edges, links, pass, done,
                   staticLibs, called, makeVars>>

\* lines 1603-1605
AddEnsureImage(id) ==
    /\ phase = "add"
    /\ adding[id].pc = "locked"
    /\ staticLibs' = [staticLibs EXCEPT ![cfi] = ensureImage(@, adding[id].image)]
    /\ SetAdding(id, "read")
    /\ UNCHANGED <<phase, mctx, decl, copies, errors, begun, firstRun, edges, links, pass, done,
                   called, libsMapLock, makeVars>>

\* line 1607: the slice is read ...
AddRead(id) ==
    /\ phase = "add"
    /\ adding[id].pc = "read"
    /\ adding' = [adding EXCEPT
                    ![id].libs = readLibs(staticLibs[cfi], adding[id].image, adding[id].arch),
                    ![id].pc = "append"]
    /\ UNCHANGED <<phase, mctx, decl, copies, errors, begun, firstRun, edges, links, pass, done,
                   staticLibs, called, libsMapLock, makeVars>>

\* ... and the slice with the name appended is stored
AddStore(id) ==
    /\ phase = "add"
    /\ adding[id].pc = "append"
    /\ staticLibs' = [staticLibs EXCEPT
                        ![cfi] = storeLibs(@, adding[id].image, adding[id].arch,
                                           Append(adding[id].libs, adding[id].name))]
    /\ SetAdding(id, "unlock")
    /\ UNCHANGED <<phase, mctx, decl, copies, errors, begun, firstRun, edges, links, pass, done,
                   called, libsMapLock, makeVars>>

\* line 1602: the deferred Unlock()
AddUnlock(id) ==
    /\ phase = "add"
    /\ adding[id].pc = "unlock"
    /\ libsMapLock' = 0
    /\ SetAdding(id, "done")
    /\ UNCHANGED <<phase, mctx, decl, copies, errors, begun, firstRun, edges, links, pass, done,
                   staticLibs, called, makeVars>>

\* lines 1682-1684: cfiMakeVarsProvider, once every add has returned
ExportAfterAdds ==
    /\ phase = "add"
    /\ \A id \in Adders : adding[id].pc = "done"
    /\ makeVars' = [t \in {cfi, Hwasan} |-> exportToMake(t, staticLibs[t])]
    /\ staticLibs' = [t \in {cfi, Hwasan} |-> sortLibs(staticLibs[t])]
    /\ phase' = "make"
    /\ UNCHANGED <<mctx, decl, copies, errors, begun, firstRun, edges, links, pass, done,
                   called, adding, libsMapLock>>

\* the callers are interchangeable: they are numbered in the order of what
\* they add (image, then architecture, then name)
AddRank(r) ==
    (IF r.image = "core" THEN 0 ELSE 2 * NumNames)
    + (IF r.arch = "arm64" THEN 0 ELSE NumNames) + r.name

InitAdd ==
    /\ phase = "add"
    /\ adding \in [Adders -> [pc : {"call"}, image : {"core", "vendor"},
                              arch : {"arm64", "x86_64"}, name : 1..NumNames,
                              libs : {<<>>}]]
    /\ \A i, j \in Adders : i < j => AddRank(adding[i]) <= AddRank(adding[j])
    /\ libsMapLock = 0
    /\ staticLibs = [t \in {cfi, Hwasan} |-> newSanitizerStaticLibsMap]
    /\ makeVars = <<>>
    /\ called = NoCall
    /\ mctx = <<>>
    /\ decl = <<>>
    /\ copies = <<>>
    /\ errors = <<>>
    /\ begun = <<>>
    /\ firstRun = <<>>
    /\ edges = {}
    /\ links = {}
    /\ pass = 0
    /\ done = {}

NextAdd ==
    \/ \E id \in Adders :
          \/ AddLock(id)
          \/ AddEnsureImage(id)
          \/ AddRead(id)
          \/ AddStore(id)
          \/ AddUnlock(id)
    \/ ExportAfterAdds

SpecAdd == InitAdd /\ [][NextAdd]_vars

(***************************************************************************)
(* Properties of the policy resolution (SpecBegin).                        *)
(***************************************************************************)
\* the resolved sanitize block of module m (its unsplit copy)
Resolved(m) == copies[Root(m)].P.Sanitize

\* the pairs of modes section 4.2 calls mutually incompatible
IncompatiblePairs ==
    {<<"Hwaddress", "Address">>, <<"Hwaddress", "Thread">>,
     <<"Cfi", "Address">>, <<"Cfi", "Hwaddress">>, <<"Cfi", "Fuzzer">>,
     <<"Memtag_heap", "Address">>, <<"Memtag_heap", "Hwaddress">>,
     <<"Memtag_stack", "Address">>, <<"Memtag_stack", "Hwaddress">>,
     <<"Scudo", "Address">>, <<"Scudo", "Thread">>, <<"Scudo", "Hwaddress">>}

\* C1: after begin() has run on a module, no two mutually incompatible modes
\* are both enabled in its resolved policy.
C1_NoIncompatiblePair ==
    \A m \in Modules :
        begun[m] >= 1 /\ mctx[m].role = "cc" =>
            \A pr \in IncompatiblePairs :
                ~(Bool(Resolved(m)[pr[1]]) /\ Bool(Resolved(m)[pr[2]]))

\* C2: a module that opts out (Never declared, or forced by the SDK) has no
\* mode enabled once begin() returns, and Split yields only the base variant
\* for every mode.
C2_OptOutEnablesNothing ==
    \A m \in Modules :
        begun[m] >= 1 /\ mctx[m].role = "cc" /\ SanitizeNever(copies[Root(m)].P) =>
            \A t \in SanitizerTypes :
                /\ ~isSanitizerEnabled(copies[Root(m)].P, t)
                /\ Split(t, mctx[m], copies[Root(m)]) = {""}

\* the declaration of the scenario of C8: address and fuzzer and nothing else
AddressAndFuzzer ==
    [EmptyUserProps EXCEPT !.Address = "true", !.Fuzzer = "true"]

\* C8: a static binary declaring address and fuzzer ends begin() with
\* address, fuzzer and thread cleared, no mode enabled, SanitizerEnabled false
\* and no sanitized variant for any mode; and after begin() no static binary
\* has address, fuzzer or thread enabled.
C8_StaticBinaryCleared ==
    \A m \in Modules :
        begun[m] >= 1 /\ mctx[m].role = "cc" /\ staticBinary(mctx[m]) =>
            /\ ~Bool(Resolved(m).Address)
            /\ ~Bool(Resolved(m).Fuzzer)
            /\ ~Bool(Resolved(m).Thread)
            /\ decl[m] = AddressAndFuzzer =>
                  /\ ~AnyModeSet(Resolved(m))
                  /\ ~copies[Root(m)].P.SanitizerEnabled
                  /\ \A t \in SanitizerTypes : Split(t, mctx[m], copies[Root(m)]) = {""}

\* C10: begin() applied a second time to the policy it resolved, with the same
\* configuration and facts, leaves every field of the policy unchanged.
C10_BeginIdempotent ==
    \A m \in Modules :
        begun[m] = 2 => copies[Root(m)].P = firstRun[m]

(***************************************************************************)
(* Properties of the split passes and of the runtime mutators (SpecGraph). *)
(***************************************************************************)
\* the variation of copy k in the latest pass, and the copy it was split from
VariationOf(k) == k[2][Len(k[2])]
ParentOf(k) == <<k[1], SubSeq(k[2], 1, Len(k[2]) - 1)>>

\* the pass in progress has split the copies and bound the dependencies, and
\* Mutate has not run yet: every copy still holds the policy it was split on
JustSplit == phase = "bottomup" /\ done = {}

CurrentMode == TransitionOrder[pass]

\* the variations materialized of the copy that k was split from
Made(k) == {VariationOf(j) : j \in {i \in DOMAIN copies : ParentOf(i) = ParentOf(k)}}

\* some dependent's edge is bound to copy k
Wanted(k) == \E l \in links : l.dst = k

\* binaries and shared libraries, as opposed to static and header libraries
BinaryOrShared(c) == Binary(c) \/ (~static(c) /\ ~Header(c))

NotThroughShared == {cfi, Hwasan, scs, Asan}

\* C5: a shared library that does not have the mode enabled, reached over a
\* sanitizable edge, is bound in its base variant when the mode is address,
\* hwaddress, cfi or shadow-call-stack, whatever the variant of the dependent;
\* when the mode is thread or fuzzer it is bound in the variant of the
\* dependent, unless it opted out with Never or declared the mode false, in
\* which case it is bound in its base variant.
C5_SharedTarget ==
    JustSplit =>
        \A l \in links :
            LET t == CurrentMode
                d == mctx[l.dst[1]]
                P == copies[l.dst].P
            IN /\ IsSanitizableDependencyTag(l.tag)
               /\ d.role = "cc" /\ d.kind = "shared"
               /\ ~isSanitizerEnabled(P, t)
               => VariationOf(l.dst) =
                     IF t \in NotThroughShared THEN ""
                     ELSE IF SanitizeNever(P) \/ isSanitizerExplicitlyDisabled(P, t) THEN ""
                     ELSE VariationOf(l.src)

\* C5 as stated: under thread and fuzzer every shared library without the
\* mode is bound in the variant of the dependent.
C5_SharedAlwaysInherits ==
    JustSplit =>
        \A l \in links :
            LET t == CurrentMode
                d == mctx[l.dst[1]]
                P == copies[l.dst].P
            IN /\ IsSanitizableDependencyTag(l.tag)
               /\ d.role = "cc" /\ d.kind = "shared"
               /\ ~isSanitizerEnabled(P, t)
               => VariationOf(l.dst) =
                     IF t \in NotThroughShared THEN "" ELSE VariationOf(l.src)

\* a thread-sanitized dependent whose shared library, not asking for thread,
\* is bound in the thread variant
C5_Witness ==
    /\ JustSplit
    /\ CurrentMode = tsan
    /\ \E l \in links :
          /\ IsSanitizableDependencyTag(l.tag)
          /\ mctx[l.dst[1]].role = "cc" /\ mctx[l.dst[1]].kind = "shared"
          /\ ~isSanitizerEnabled(copies[l.dst].P, tsan)
          /\ VariationOf(l.src) = variationName(tsan)
          /\ VariationOf(l.dst) = variationName(tsan)

\* C6: a static library that has not opted out of the mode (neither Never nor
\* the mode declared false) is bound, over every sanitizable edge, in the
\* variant of the dependent; with a sanitized and a base dependent it has two
\* copies, one bound to each, whether or not it asked for the mode.
C6_StaticFollowsDependent ==
    JustSplit =>
        \A l \in links :
            LET t == CurrentMode
                d == mctx[l.dst[1]]
                P == copies[l.dst].P
            IN /\ IsSanitizableDependencyTag(l.tag)
               /\ d.role = "cc" /\ d.kind = "static"
               /\ ~SanitizeNever(P) /\ ~isSanitizerExplicitlyDisabled(P, t)
               => /\ l.dst \in DOMAIN copies
                  /\ VariationOf(l.dst) = VariationOf(l.src)
                  /\ \A l2 \in links :
                        /\ IsSanitizableDependencyTag(l2.tag)
                        /\ ParentOf(l2.dst) = ParentOf(l.dst)
                        /\ VariationOf(l2.src) # VariationOf(l.src)
                        => /\ l2.dst # l.dst
                           /\ Made(l.dst) = {"", variationName(t)}

\* a static library that did not ask for the mode, with a sanitized and a
\* base dependent, just split in two copies
C6_Witness ==
    /\ JustSplit
    /\ \E l1 \in links, l2 \in links :
          /\ l1.dst[1] = l2.dst[1] /\ l1.dst # l2.dst
          /\ mctx[l1.dst[1]].role = "cc" /\ mctx[l1.dst[1]].kind = "static"
          /\ ~isSanitizerEnabled(copies[l1.dst].P, CurrentMode)
          /\ IsSanitizableDependencyTag(l1.tag) /\ IsSanitizableDependencyTag(l2.tag)
          /\ VariationOf(l1.src) = variationName(CurrentMode)
          /\ VariationOf(l1.dst) = variationName(CurrentMode)
          /\ VariationOf(l2.src) = ""
          /\ VariationOf(l2.dst) = ""

\* the copies of a static library in the base and the sanitized variant of the
\* pass in progress, once Mutate has run on the library
MutatedPairs ==
    {pr \in (DOMAIN copies) \X (DOMAIN copies) :
        /\ phase = "bottomup" /\ pr[1][1] \in done
        /\ mctx[pr[1][1]].role = "cc" /\ mctx[pr[1][1]].kind = "static"
        /\ ParentOf(pr[1]) = ParentOf(pr[2])
        /\ VariationOf(pr[1]) = ""
        /\ VariationOf(pr[2]) = variationName(CurrentMode)}

\* Mutate of sanitizer t marked copy k prevent-install and hidden from Make
MarkedBy(k, t) ==
    /\ t \in copies[k].preventInstallBy
    /\ copies[k].PreventInstall
    /\ copies[k].HideFromMake

\* C7: of the base and the sanitized variant of a static library, Mutate marks
\* exactly one prevent-install and hidden from Make when the mode is address,
\* thread or fuzzer, and neither when it is cfi, shadow-call-stack or
\* hwaddress.
C7_OneVariantHidden ==
    \A pr \in MutatedPairs :
        LET t == CurrentMode
        IN IF t \in {Asan, tsan, Fuzzer}
           THEN MarkedBy(pr[1], t) # MarkedBy(pr[2], t)
           ELSE /\ t \notin copies[pr[1]].preventInstallBy
                /\ t \notin copies[pr[2]].preventInstallBy

\* C7 as stated: exactly one of the two variants is marked, cfi included.
C7_ExactlyOneHidden ==
    \A pr \in MutatedPairs :
        MarkedBy(pr[1], CurrentMode) # MarkedBy(pr[2], CurrentMode)

\* a static library in its base and address variants after Mutate: the
\* sanitized one is hidden, the library not having asked for address
C7_Witness ==
    \E pr \in MutatedPairs :
        /\ CurrentMode = Asan
        /\ ~MarkedBy(pr[1], Asan)
        /\ MarkedBy(pr[2], Asan)

\* a copy of a shared library with integer_overflow in diagnostic form and no
\* sanitizer of a higher runtime priority, no flag set by its dependencies,
\* after sanitizerRuntimeMutator ran on its enabled module
DiagOverflowShared(k) ==
    LET c == mctx[k[1]]
        s == copies[k].P.Sanitize
    IN /\ phase = "runtime" /\ k[1] \in done
       /\ c.role = "cc" /\ c.kind = "shared" /\ ~Fact(c, "Disabled")
       /\ Bool(s.Integer_overflow) /\ Bool(s.Diag_Integer_overflow)
       /\ ~Bool(s.Address) /\ ~Bool(s.Hwaddress) /\ ~Bool(s.Thread) /\ ~Bool(s.Scudo)
       /\ ~copies[k].P.MinimalRuntimeDep
       /\ ~copies[k].P.UbsanRuntimeDep
       /\ ~copies[k].P.BuiltinsDep

\* C9: for such a shared library the runtime mutator adds exactly one
\* dependency, the full UBSan runtime in shared form, and no minimal runtime,
\* when the toolchain is Bionic or musl; on a glibc host it adds none.
C9_DiagRuntimeEdge ==
    \A k \in DOMAIN copies :
        DiagOverflowShared(k) =>
            copies[k].runtimeDeps =
                IF Bionic(mctx[k[1]]) \/ Musl(mctx[k[1]])
                THEN <<SharedDep("ubsan")>> ELSE <<>>

\* C9 as stated: the dependency is added for every such shared library.
C9_AlwaysInjected ==
    \A k \in DOMAIN copies :
        DiagOverflowShared(k) => copies[k].runtimeDeps = <<SharedDep("ubsan")>>

\* a device shared library with integer_overflow in diagnostic form that got
\* the shared UBSan runtime as its only added dependency
C9_Witness ==
    \E k \in DOMAIN copies :
        /\ DiagOverflowShared(k)
        /\ mctx[k[1]].os = "android"
        /\ copies[k].runtimeDeps = <<SharedDep("ubsan")>>


(***************************************************************************)
(* Properties of the errors and of the status begin() leaves (SpecBegin).  *)
(***************************************************************************)
\* C11: after begin(), SanitizerEnabled is set if and only if at least one
\* mode is still enabled in the final policy, after all pruning.
C11_EnabledIffModeRemains ==
    \A m \in Modules :
        begun[m] = 1 /\ mctx[m].role = "cc" =>
            (copies[Root(m)].P.SanitizerEnabled <=> AnyModeSet(Resolved(m)))

\* the lists of lines 343-356 that apply to the platform and architecture of c
AppliedGlobal(c) == StepGlobalLists(BeginEntry(EmptyProperties), c).gs
AppliedDiag(c) == StepGlobalLists(BeginEntry(EmptyProperties), c).gd

\* the names begin() recognises in the global list and in the diagnostics list
KnownGlobal == Range(GlobalNames) \ {"bogus"}
KnownDiag == Range(GlobalDiagNames) \ {"bogus"}

\* C12: whenever the global list, or the global diagnostics list, that applies
\* to the module contains a name that is not recognised, begin() has reported
\* an error that names that option.
C12_UnknownNameReported ==
    \A m \in Modules :
        begun[m] = 1 /\ mctx[m].role = "cc" =>
            /\ \A n \in Range(AppliedGlobal(mctx[m])) \ KnownGlobal :
                  <<"unknown global sanitizer option", n>> \in Range(errors[m])
            /\ \A n \in Range(AppliedDiag(mctx[m])) \ KnownDiag :
                  <<"unknown global sanitizer diagnostics option", n>> \in Range(errors[m])

\* the error of line 409
WriteonlyError == <<"writeonly modifier cannot be used without 'address' or 'hwaddress'">>

\* C13: whenever begin() leaves Writeonly set on a module for which neither
\* address nor hwaddress is enabled, the writeonly configuration error has
\* been reported.
C13_WriteonlyNeedsAddress ==
    \A m \in Modules :
        (/\ begun[m] = 1
         /\ mctx[m].role = "cc"
         /\ Bool(Resolved(m).Writeonly)
         /\ ~Bool(Resolved(m).Address)
         /\ ~Bool(Resolved(m).Hwaddress))
        => WriteonlyError \in Range(errors[m])


PanickingQueries ==
    {"variationName", "name", "registerMutators", "getSanitizerBoolPtr", "SetSanitizer"}

\* C15: variationName, name, getSanitizerBoolPtr, SetSanitizer and
\* registerMutators panic exactly when called with a value outside the
\* enumerated sanitizers; SanitizerSupported never panics and answers false
\* for such a value.
C15_PanicsExceptSupported ==
    /\ called.fn \in PanickingQueries => (called.panicked <=> called.t \in UnknownTypes)
    /\ called.fn = "SanitizerSupported" =>
          /\ ~called.panicked
          /\ called.b <=> called.t \in SanitizerTypes

\* C15 as stated: every per-sanitizer query, SanitizerSupported included,
\* panics when called with a value outside the enumerated sanitizers.
C15_EveryQueryPanics ==
    called.fn # "none" /\ called.t \in UnknownTypes => called.panicked

\* SetSanitizer was called with a value that is no sanitizer and panicked
C15_Witness ==
    /\ called.fn = "SetSanitizer"
    /\ called.t \in UnknownTypes
    /\ called.panicked
    /\ called.n = 2

\* SanitizerSupported was called with a value that is no sanitizer and
\* returned false
C15_WitnessSupported ==
    /\ called.fn = "SanitizerSupported"
    /\ called.t \in UnknownTypes
    /\ ~called.panicked
    /\ ~called.b


(***************************************************************************)
(* Properties of Mutate and of the order of the passes (SpecGraph).        *)
(***************************************************************************)
\* copy k is built in the sanitized variation of a sanitizer incompatible
\* with cfi
InIncompatibleVariant(k) ==
    \E i \in 1..Len(k[2]) :
        /\ incompatibleWithCfi(TransitionOrder[i])
        /\ k[2][i] = variationName(TransitionOrder[i])

\* the passes whose Mutate has run on every copy of module m
MutatedPasses(m) ==
    {i \in 1..Len(TransitionOrder) :
        \/ i < pass
        \/ i = pass /\ (phase \in {"runtimeDeps", "runtime", "build", "make"} \/ (phase = "bottomup" /\ m \in done))}

\* C17: when Mutate has materialized a copy in the sanitized variation of a
\* sanitizer incompatible with cfi, cfi is not enabled on that copy, on host
\* and device alike.
C17_CfiOffInIncompatibleVariant ==
    \A k \in DOMAIN copies :
        (/\ mctx[k[1]].role = "cc"
         /\ InIncompatibleVariant(k)
         /\ \A i \in 1..Len(k[2]) : i \in MutatedPasses(k[1]))
        => ~isSanitizerEnabled(copies[k].P, cfi)


\* the split decision of the current pass is about to read the copies
SplitReads == phase = "markapex"

\* C16: the passes run one sanitizer at a time in the order of Sanitizers:
\* whenever a split decision reads a copy, the Mutate of every earlier pass
\* has been applied to it (the sanitizer of the pass is enabled on the copy
\* exactly if the copy is in its sanitized variation), cfi is split after
\* every other sanitizer, and the cfi split of a device copy built in an
\* asan, hwasan or fuzzer variation finds cfi already cleared.
C16_MutateBeforeNextSplit ==
    /\ \A k \in DOMAIN copies :
          mctx[k[1]].role = "cc" =>
             \A i \in 1..Len(k[2]) :
                i \in MutatedPasses(k[1]) =>
                   (isSanitizerEnabled(copies[k].P, TransitionOrder[i])
                       <=> k[2][i] = variationName(TransitionOrder[i]))
    /\ SplitReads =>
          \A k \in DOMAIN copies : Len(k[2]) = pass - 1
    /\ SplitReads /\ TransitionOrder[pass] = cfi =>
          /\ pass = Len(TransitionOrder)
          /\ \A k \in DOMAIN copies :
                (/\ mctx[k[1]].role = "cc"
                 /\ ~Host(mctx[k[1]])
                 /\ InIncompatibleVariant(k))
                => ~isSanitizerEnabled(copies[k].P, cfi)

\* the cfi split is about to read a device copy built in an asan, hwasan or
\* fuzzer variation of a module that resolved cfi enabled in begin()
C16_Witness ==
    /\ SplitReads
    /\ TransitionOrder[pass] = cfi
    /\ \E k \in DOMAIN copies :
          /\ mctx[k[1]].role = "cc"
          /\ ~Host(mctx[k[1]])
          /\ InIncompatibleVariant(k)
          /\ isSanitizerEnabled(firstRun[k[1]], cfi)
          /\ ~isSanitizerEnabled(copies[k].P, cfi)

\* the copies of one module that the current pass split from one copy:
\* <<base, sanitized>>
Siblings ==
    {pr \in (DOMAIN copies) \X (DOMAIN copies) :
        /\ pass > 0
        /\ pr[1][1] = pr[2][1]
        /\ Len(pr[1][2]) = pass
        /\ Len(pr[2][2]) = pass
        /\ ParentOf(pr[1]) = ParentOf(pr[2])
        /\ VariationOf(pr[1]) = ""
        /\ VariationOf(pr[2]) = variationName(CurrentMode)}

\* C18: once Mutate has run on a cc module that is materialized in both
\* variations of the pass, the sanitizer is not enabled on the base copy and
\* enabled on the sanitized copy, and the two copies differ in no other
\* field of the policy than that sanitizer and cfi (which Mutate clears on the
\* sanitized copy only).
C18_BaseOffSanitizedOn ==
    \A pr \in Siblings :
        (/\ phase = "bottomup"
         /\ pr[1][1] \in done
         /\ mctx[pr[1][1]].role = "cc")
        => /\ ~isSanitizerEnabled(copies[pr[1]].P, CurrentMode)
           /\ isSanitizerEnabled(copies[pr[2]].P, CurrentMode)
           /\ \A f \in (BoolFields \cup ListFields) \ {SanitizerField(CurrentMode), "Cfi"} :
                 copies[pr[1]].P.Sanitize[f] = copies[pr[2]].P.Sanitize[f]

\* a static library that requested the sanitizer of the pass, mutated in both
\* variations
C18_Witness ==
    \E pr \in Siblings :
        /\ phase = "bottomup"
        /\ pr[1][1] \in done
        /\ mctx[pr[1][1]].role = "cc"
        /\ isSanitizerEnabled(firstRun[pr[1][1]], CurrentMode)
        /\ ~isSanitizerEnabled(copies[pr[1]].P, CurrentMode)
        /\ isSanitizerEnabled(copies[pr[2]].P, CurrentMode)


(***************************************************************************)
(* Properties of the aggregate lists of static libraries (SpecGraph).      *)
(***************************************************************************)
\* the position of the pass of sanitizer t
PassOf(t) == CHOOSE i \in 1..Len(TransitionOrder) : TransitionOrder[i] = t

\* the copies of module m that the pass of t mutated
MutatedCopies(t, m) ==
    IF PassOf(t) \in MutatedPasses(m)
    THEN {SubSeq(k[2], 1, PassOf(t)) : k \in {j \in CopiesOf(m) : Len(j[2]) >= PassOf(t)}}
    ELSE {}

\* how many times the pass of t should have recorded module m: once per
\* sanitized copy of a static cc module exported to Make, and for cfi once
\* per copy of a static snapshot library that has a cfi variant
Recorded(t, m) ==
    IF ~(static(mctx[m]) /\ Fact(mctx[m], "ExportedToMake")) THEN 0
    ELSE IF mctx[m].role = "cc"
         THEN Cardinality({v \in MutatedCopies(t, m) : v[PassOf(t)] = variationName(t)})
    ELSE IF mctx[m].role = "ccNoSan" /\ t = cfi /\ t \in mctx[m].snapshot
         THEN Cardinality(MutatedCopies(t, m))
    ELSE 0

\* n times the name nm
Repeated(n, nm) == [i \in 1..n |-> nm]

\* the names expected under (image, arch) in the list of t, in order of name
RECURSIVE ExpectedUpTo(_, _, _, _)
ExpectedUpTo(n, t, image, arch) ==
    IF n = 0 THEN <<>>
    ELSE ExpectedUpTo(n - 1, t, image, arch)
         \o (IF n \in Modules /\ GetImageVariantType(mctx[n]) = image /\ mctx[n].arch = arch
             THEN Repeated(Recorded(t, n), n) ELSE <<>>)

ExpectedNames(t, image, arch) == ExpectedUpTo(Cardinality(Modules), t, image, arch)

\* the pairs expected from exportToMake for sanitizer t
ExpectedExport(t) ==
    LET keys == {<<i, a>> \in (1..Len(ImageVariantTypes)) \X (1..Len(ArchNames)) :
                    ExpectedNames(t, ImageVariantTypes[i], ArchNames[a]) # <<>>}
        RECURSIVE from(_, _)
        from(i, a) ==
            IF i > Len(ImageVariantTypes) THEN <<>>
            ELSE IF a > Len(ArchNames) THEN from(i + 1, 1)
            ELSE (IF <<i, a>> \in keys
                  THEN << <<MakeKey(t, ImageVariantTypes[i], ArchNames[a]),
                            ExpectedNames(t, ImageVariantTypes[i], ArchNames[a])>> >>
                  ELSE <<>>) \o from(i, a + 1)
    IN from(1, 1)

\* the number of times x occurs in the sequence
Occurrences(x, seq) == Cardinality({i \in 1..Len(seq) : seq[i] = x})

\* the list of t under (image, arch), empty when a key is missing
ListOf(t, image, arch) ==
    IF image \in DOMAIN staticLibs[t] /\ arch \in DOMAIN staticLibs[t][image]
    THEN staticLibs[t][image][arch] ELSE <<>>

\* C19: only hwasan and cfi keep an aggregate list.  In each, a static cc
\* module exported to Make is recorded under its image and architecture once
\* per copy Mutate materialized in the sanitized variation (and a static
\* snapshot library with a cfi variant once per copy, in the cfi list), and
\* nothing else is recorded; exportToMake emits one key per image and
\* architecture that has a name, in sorted order, holding the names sorted.
C19_RecordedAndExported ==
    /\ DOMAIN staticLibs = {cfi, Hwasan}
    /\ \A t \in {cfi, Hwasan} :
          /\ \A i \in 1..Len(ImageVariantTypes), a \in 1..Len(ArchNames), m \in Modules :
                Occurrences(m, ListOf(t, ImageVariantTypes[i], ArchNames[a]))
                   = Occurrences(m, ExpectedNames(t, ImageVariantTypes[i], ArchNames[a]))
          /\ phase = "make" => makeVars[t] = ExpectedExport(t)

\* C19 as stated: the sanitizer of every pass has a list, in which every
\* static cc module exported to Make is recorded for its sanitized copies.
C19_EveryModeRecords ==
    \A t \in Range(TransitionOrder) :
        \A m \in Modules :
            (/\ mctx[m].role = "cc"
             /\ static(mctx[m])
             /\ Fact(mctx[m], "ExportedToMake")
             /\ \E v \in MutatedCopies(t, m) : v[PassOf(t)] = variationName(t))
            => /\ t \in DOMAIN staticLibs
               /\ Occurrences(m, ListOf(t, GetImageVariantType(mctx[m]), mctx[m].arch)) > 0

\* two static libraries of different image or architecture got a sanitized
\* copy and the keys of both have been exported
C19_Witness ==
    /\ phase = "make"
    /\ \E t \in {cfi, Hwasan} :
          /\ Len(makeVars[t]) = 2
          /\ makeVars[t] = ExpectedExport(t)
          /\ \E m \in Modules : mctx[m].role = "cc" /\ Recorded(t, m) = 1


(***************************************************************************)
(* Properties of concurrent add calls (SpecAdd).                           *)
(***************************************************************************)
\* the callers whose append of name nm under (image, arch) has been stored
Appended(image, arch, nm) ==
    {id \in Adders : /\ adding[id].image = image
                     /\ adding[id].arch = arch
                     /\ adding[id].name = nm
                     /\ adding[id].pc \in {"unlock", "done"}}

\* the names the callers add under (image, arch), in order of name
RECURSIVE AddedUpTo(_, _, _)
AddedUpTo(n, image, arch) ==
    IF n = 0 THEN <<>>
    ELSE AddedUpTo(n - 1, image, arch)
         \o Repeated(Cardinality({id \in Adders : /\ adding[id].image = image
                                                  /\ adding[id].arch = arch
                                                  /\ adding[id].name = n}), n)

\* the pairs exportToMake must hand over, computed from the calls alone
AddsExport ==
    LET RECURSIVE from(_, _)
        from(i, a) ==
            IF i > Len(ImageVariantTypes) THEN <<>>
            ELSE IF a > Len(ArchNames) THEN from(i + 1, 1)
            ELSE (IF AddedUpTo(NumNames, ImageVariantTypes[i], ArchNames[a]) # <<>>
                  THEN << <<MakeKey(cfi, ImageVariantTypes[i], ArchNames[a]),
                            AddedUpTo(NumNames, ImageVariantTypes[i], ArchNames[a])>> >>
                  ELSE <<>>) \o from(i, a + 1)
    IN from(1, 1)

\* C20: under every interleaving of concurrent add calls no append is lost
\* or corrupted: at any time the list of each image and architecture holds
\* exactly the names whose append has been stored, and once every call has
\* returned exportToMake hands over the same sorted pairs whatever the
\* interleaving was.
C20_NoAppendLost ==
    phase \in {"add", "make"} =>
       /\ \A i \in 1..Len(ImageVariantTypes), a \in 1..Len(ArchNames), nm \in 1..NumNames :
             Occurrences(nm, ListOf(cfi, ImageVariantTypes[i], ArchNames[a]))
                = Cardinality(Appended(ImageVariantTypes[i], ArchNames[a], nm))
       /\ \A i \in 1..Len(ImageVariantTypes), a \in 1..Len(ArchNames) :
             \A j \in 1..Len(ListOf(cfi, ImageVariantTypes[i], ArchNames[a])) :
                ListOf(cfi, ImageVariantTypes[i], ArchNames[a])[j] \in 1..NumNames
       /\ phase = "make" => makeVars[cfi] = AddsExport

\* every call has returned, one list got two different names and another
\* list a third call, and the pairs have been exported
C20_Witness ==
    /\ phase = "make"
    /\ \E i \in 1..Len(ImageVariantTypes), a \in 1..Len(ArchNames) :
          LET libs == ListOf(cfi, ImageVariantTypes[i], ArchNames[a])
          IN Len(libs) = 2 /\ libs[1] < libs[2]
    /\ Len(makeVars[cfi]) = 2
    /\ makeVars[cfi] = AddsExport

(***************************************************************************)
(* The runtime library of a module.                                        *)
(***************************************************************************)

MainRuntimes ==
    {"asan", "hwasan", "hwasan_static", "tsan", "scudo", "scudo_minimal", "ubsan",
     "ubsan.static"}

\* the main runtime libraries among the dependencies the runtime mutator added
MainRuntimeDeps(k) ==
    {copies[k].runtimeDeps[i].lib : i \in DOMAIN copies[k].runtimeDeps} \cap MainRuntimes

\* copy k has been through sanitizerRuntimeMutator
RuntimeMutated(k) ==
    /\ mctx[k[1]].role = "cc"
    /\ ~Fact(mctx[k[1]], "Disabled")
    /\ \/ phase \in {"build", "make"}
       \/ phase = "runtime" /\ k[1] \in done

\* the condition of the generic UBSan runtime, line 1442
WantsUbsanRuntime(k) ==
    LET s == copies[k].P.Sanitize
    IN \/ Len(copies[k].P.DiagSanitizers) > 0 /\ ~Host(mctx[k[1]])
       \/ Len(copies[k].P.Sanitizers) > 0 /\ Host(mctx[k[1]])
       \/ copies[k].P.UbsanRuntimeDep
       \/ Bool(s.Fuzzer) \/ Bool(s.Undefined) \/ Bool(s.All_undefined)

\* the mode whose runtime the priority address > hwaddress > thread > scudo >
\* generic UBSan selects for copy k ("" when no condition holds)
PriorityMode(k) ==
    LET s == copies[k].P.Sanitize
    IN IF Bool(s.Address) THEN "address"
       ELSE IF Bool(s.Hwaddress) THEN "hwaddress"
       ELSE IF Bool(s.Thread) THEN "thread"
       ELSE IF Bool(s.Scudo) THEN "scudo"
       ELSE IF WantsUbsanRuntime(k) THEN "ubsan"
       ELSE ""

RuntimesOfMode(mode) ==
    CASE mode = "address" -> {"asan"}
      [] mode = "hwaddress" -> {"hwasan", "hwasan_static"}
      [] mode = "thread" -> {"tsan"}
      [] mode = "scudo" -> {"scudo", "scudo_minimal"}
      [] mode = "ubsan" -> {"ubsan", "ubsan.static"}
      [] OTHER -> {}

\* the runtime dependency is linked in: a binary or shared library on a
\* Bionic or musl toolchain
LinksRuntime(k) ==
    /\ mctx[k[1]].kind \in {"binary", "staticBinary", "shared"}
    /\ Bionic(mctx[k[1]]) \/ Musl(mctx[k[1]])

\* C21: a module that has been through sanitizerRuntimeMutator depends on at
\* most one main runtime library, which is always the one of the first enabled
\* mode in the order address, hwaddress, thread, scudo, generic UBSan; where
\* the runtime is linked in (binary or shared library, Bionic or musl) it
\* depends on exactly that one, and on none when no condition holds.
C21_RuntimeByPriority ==
    \A k \in DOMAIN copies :
        RuntimeMutated(k) =>
            /\ Cardinality(MainRuntimeDeps(k)) <= 1
            /\ MainRuntimeDeps(k) \subseteq RuntimesOfMode(PriorityMode(k))
            /\ LinksRuntime(k) =>
                  Cardinality(MainRuntimeDeps(k)) = IF PriorityMode(k) = "" THEN 0 ELSE 1

\* a binary with address and thread both enabled that got the address runtime
C21_Witness ==
    \E k \in DOMAIN copies :
        /\ RuntimeMutated(k)
        /\ Bool(copies[k].P.Sanitize.Address)
        /\ Bool(copies[k].P.Sanitize.Thread)
        /\ MainRuntimeDeps(k) = {"asan"}

(***************************************************************************)
(* The minimal runtime.                                                    *)
(***************************************************************************)

\* sanitizerRuntimeMutator gave copy k the minimal runtime
HasMinimalRuntime(k) ==
    \E i \in DOMAIN copies[k].runtimeDeps :
        copies[k].runtimeDeps[i] = StaticDep("ubsan_minimal")

\* copy k has none of address, hwaddress and fuzzer and has a check of the
\* overflow and undefined family
OverflowFamilyOnly(k) ==
    LET s == copies[k].P.Sanitize
    IN /\ ~Bool(s.Address) /\ ~Bool(s.Hwaddress) /\ ~Bool(s.Fuzzer)
       /\ \/ Bool(s.Integer_overflow) \/ Bool(s.Undefined) \/ Bool(s.All_undefined)
          \/ Len(s.Misc_undefined) > 0

\* a diagnostic form of the overflow and undefined family is enabled
OverflowFamilyDiag(k) ==
    LET s == copies[k].P.Sanitize
    IN \/ Bool(s.Diag_Integer_overflow) \/ Bool(s.Diag_Undefined)
       \/ Len(s.Diag_Misc_undefined) > 0

\* C22: a module whose dependencies do not ask for the minimal runtime gets
\* it exactly when it has none of address, hwaddress and fuzzer, has a check
\* of the overflow and undefined family, and has no diagnostic form of
\* integer_overflow, undefined, misc_undefined or cfi enabled.
C22_MinimalRuntimeEligible ==
    \A k \in DOMAIN copies :
        (RuntimeMutated(k) /\ ~copies[k].P.MinimalRuntimeDep) =>
            (HasMinimalRuntime(k) <=>
                /\ OverflowFamilyOnly(k)
                /\ ~OverflowFamilyDiag(k)
                /\ ~Bool(copies[k].P.Sanitize.Diag_Cfi))

\* C22 as stated: the diagnostic state of no other mode matters.
C22_OtherDiagIgnored ==
    \A k \in DOMAIN copies :
        (RuntimeMutated(k) /\ ~copies[k].P.MinimalRuntimeDep) =>
            (HasMinimalRuntime(k) <=> (OverflowFamilyOnly(k) /\ ~OverflowFamilyDiag(k)))

\* a module with integer_overflow and the cfi diagnostics that did not get
\* the minimal runtime
C22_Witness ==
    \E k \in DOMAIN copies :
        /\ RuntimeMutated(k)
        /\ ~copies[k].P.MinimalRuntimeDep
        /\ OverflowFamilyOnly(k)
        /\ ~OverflowFamilyDiag(k)
        /\ Bool(copies[k].P.Sanitize.Diag_Cfi)
        /\ ~HasMinimalRuntime(k)

\* a module with a check of the family and the memtag_heap diagnostics that
\* got the minimal runtime
C22_WitnessOtherDiag ==
    \E k \in DOMAIN copies :
        /\ RuntimeMutated(k)
        /\ Bool(copies[k].P.Sanitize.Diag_Memtag_heap)
        /\ HasMinimalRuntime(k)

(***************************************************************************)
(* The runtime-dependency walk.                                            *)
(***************************************************************************)

\* copy k has been through sanitizerRuntimeDepsMutator
DepsMutated(k) ==
    /\ mctx[k[1]].role = "cc"
    /\ \/ phase \in {"runtime", "build", "make"}
       \/ phase = "runtimeDeps" /\ k[1] \in done

\* the static cc modules one sanitizable edge away from copy k or from a
\* copy of S that the walk goes through (a module of a role in `through`)
StaticStep(k, S, through) ==
    {l.dst : l \in {x \in links :
                      /\ x.src = k \/ (x.src \in S /\ mctx[x.src[1]].role \in through)
                      /\ IsSanitizableDependencyTag(x.tag)
                      /\ mctx[x.dst[1]].role \in {"cc", "ccNoSan"}
                      /\ static(mctx[x.dst[1]])}}

RECURSIVE StaticReach(_, _, _, _)
StaticReach(k, S, through, n) ==
    IF n = 0 THEN S
    ELSE StaticReach(k, S \cup StaticStep(k, S, through), through, n - 1)

\* the modules reachable from copy k along sanitizable edges through static
\* modules of the roles in `through`
ReachableStatic(k, through) == StaticReach(k, {}, through, Cardinality(DOMAIN copies))

\* copy d is built with the minimal runtime, or is a snapshot recorded so
MinimalEligible(d) ==
    IF mctx[d[1]].role = "cc" THEN enableMinimalRuntime(copies[d].P)
    ELSE Fact(mctx[d[1]], "Sanitize_minimal_dep")

\* copy d needs the full diagnostic runtime, or is a snapshot recorded so
NeedsUbsanRuntime(d) ==
    IF mctx[d[1]].role = "cc" THEN enableUbsanRuntime(copies[d].P)
    ELSE Fact(mctx[d[1]], "Sanitize_ubsan_dep")

\* C23: after sanitizerRuntimeDepsMutator has run on a module,
\* MinimalRuntimeDep is set exactly when a minimal-runtime eligible module is
\* reachable from it along sanitizable edges through static modules that
\* carry sanitize properties, and UbsanRuntimeDep exactly when such a module
\* needs the full diagnostic runtime; a snapshot library counts with its
\* recorded flags and is not walked through.
C23_FlagsFromStaticReach ==
    \A k \in DOMAIN copies :
        DepsMutated(k) =>
            /\ copies[k].P.MinimalRuntimeDep <=>
                  \E d \in ReachableStatic(k, {"cc"}) : MinimalEligible(d)
            /\ copies[k].P.UbsanRuntimeDep <=>
                  \E d \in ReachableStatic(k, {"cc"}) : NeedsUbsanRuntime(d)

\* C23 as stated: the flags are set for a module reachable through any
\* static modules.
C23_ThroughAnyStatic ==
    \A k \in DOMAIN copies :
        DepsMutated(k) =>
            /\ (\E d \in ReachableStatic(k, {"cc", "ccNoSan"}) : MinimalEligible(d))
                  => copies[k].P.MinimalRuntimeDep
            /\ (\E d \in ReachableStatic(k, {"cc", "ccNoSan"}) : NeedsUbsanRuntime(d))
                  => copies[k].P.UbsanRuntimeDep

\* a module that got both flags from two static dependencies, the second of
\* them below the first
C23_Witness ==
    \E k \in DOMAIN copies :
        /\ DepsMutated(k)
        /\ copies[k].P.MinimalRuntimeDep
        /\ copies[k].P.UbsanRuntimeDep
        /\ \E l \in links :
              /\ l.src # k
              /\ l.dst \in ReachableStatic(k, {"cc"})
              /\ mctx[l.dst[1]].role = "cc"
              /\ NeedsUbsanRuntime(l.dst) \/ MinimalEligible(l.dst)

\* an eligible static library below a static snapshot library, which the walk
\* does not reach
C23_WitnessSnapshot ==
    \E k \in DOMAIN copies :
        /\ DepsMutated(k)
        /\ ~copies[k].P.MinimalRuntimeDep
        /\ \E d \in ReachableStatic(k, {"cc", "ccNoSan"}) : MinimalEligible(d)

\* copy d is built with at least one sanitizer
BuiltSanitized(d) ==
    /\ mctx[d[1]].role = "cc"
    /\ Len(SanitizerList(copies[d].P.Sanitize)) > 0

\* C24: after sanitizerRuntimeDepsMutator a module of the Linux host has
\* BuiltinsDep set exactly when a static dependency built with a sanitizer is
\* reachable from it along sanitizable edges, and a module of another
\* operating system never has it set.
C24_BuiltinsIffSanitizedDep ==
    \A k \in DOMAIN copies :
        DepsMutated(k) =>
            IF mctx[k[1]].os = "linux_glibc"
            THEN copies[k].P.BuiltinsDep <=>
                    \E d \in ReachableStatic(k, {"cc"}) : BuiltSanitized(d)
            ELSE ~copies[k].P.BuiltinsDep

(***************************************************************************)
(* Make names.                                                             *)
(***************************************************************************)

\* the split passes are over
SplitsDone == phase \in {"runtimeDeps", "runtime", "build", "make"}

\* the copies of a static or header library that Make sees
VisibleLibs ==
    {k \in DOMAIN copies :
        /\ mctx[k[1]].role = "cc"
        /\ mctx[k[1]].kind \in {"static", "header"}
        /\ ~copies[k].HideFromMake}

\* the Make name of copy k: the module and the SubName of its Make entries
MakeName(k) == <<k[1], AndroidMkEntries(mctx[k[1]], copies[k].P, "")>>

\* the position of sanitizer t in the variations of a copy
PassOfMode(t) == CHOOSE i \in 1..Len(TransitionOrder) : TransitionOrder[i] = t

\* C25: once the split passes are over, two copies of a static or header
\* library that Make both sees have different Make names, and they are the
\* same variant for address, thread and fuzzer, of which one variant at most
\* is left visible.
C25_DistinctMakeNames ==
    SplitsDone =>
        \A k1 \in VisibleLibs : \A k2 \in VisibleLibs :
            (k1 # k2 /\ k1[1] = k2[1]) =>
                /\ MakeName(k1) # MakeName(k2)
                /\ \A t \in {Asan, tsan, Fuzzer} :
                      k1[2][PassOfMode(t)] = k2[2][PassOfMode(t)]

\* a static library that Make sees with and without the suffixes of cfi and
\* shadow-call-stack together, and that has a hidden variant as well
C25_Witness ==
    /\ SplitsDone
    /\ \E k1 \in VisibleLibs : \E k2 \in VisibleLibs :
          /\ k1[1] = k2[1]
          /\ MakeName(k1)[2] = ".cfi.scs"
          /\ MakeName(k2)[2] = ""

\* a static library with a variant hidden from Make next to a visible one
C25_WitnessHidden ==
    /\ SplitsDone
    /\ \E k \in DOMAIN copies : \E k2 \in VisibleLibs :
          /\ k[1] = k2[1]
          /\ copies[k].HideFromMake
          /\ k[2][PassOfMode(Asan)] = "asan"

(***************************************************************************)
(* Termination.                                                            *)
(***************************************************************************)

\* every mode has been processed and the aggregates have been exported
Exported ==
    /\ phase = "make"
    /\ pass = Len(TransitionOrder)
    /\ done = Modules
    /\ DOMAIN makeVars = {cfi, Hwasan}

RECURSIVE TwoTo(_)
TwoTo(n) == IF n = 0 THEN 1 ELSE 2 * TwoTo(n - 1)

\* a pass leaves two copies at most of each copy it was given, and the edges
\* stay bound to copies that exist
FinitelySplit ==
    /\ pass <= Len(TransitionOrder)
    /\ Cardinality(DOMAIN copies) <= Cardinality(Modules) * TwoTo(pass)
    /\ \A l \in links : l.src \in DOMAIN copies /\ l.dst \in DOMAIN copies

\* C26: on every acyclic graph each pass makes finitely many copies and the
\* pipeline eventually reaches the state where every mode has been processed
\* and the aggregates are exported.
C26_Terminates == [](FinitelySplit) /\ <>Exported

\* the end of the pipeline on a graph with a module that was split in two
\* passes
C26_Witness ==
    /\ Exported
    /\ \E m \in Modules : Cardinality(CopiesOf(m)) > 2

(***************************************************************************)
(* Platform gating.                                                        *)
(***************************************************************************)

\* the modes left enabled on module m agree with its target
PlatformGated(m) ==
    LET s == copies[Root(m)].P.Sanitize
        c == mctx[m]
    IN /\ (Bool(s.Hwaddress) \/ Bool(s.Scs)) => (Arm64(c) /\ Bionic(c))
       /\ (Bool(s.Memtag_heap) \/ Bool(s.Memtag_stack))
             => (Arm64(c) /\ Bionic(c) /\ ~Host(c))
       /\ (Bool(s.Thread) \/ Bool(s.Safestack)) => Is64Bit(c)
       /\ (\/ Bool(s.Cfi) \/ Bool(s.Integer_overflow) \/ Bool(s.Undefined)
           \/ Bool(s.All_undefined) \/ Len(s.Misc_undefined) > 0) => OsLinux(c)

\* C27: after begin() every module has hwaddress and shadow-call-stack only
\* on arm64 with Bionic, the memtag modes only on arm64 Bionic devices, thread
\* and safe-stack only on 64-bit toolchains, and cfi, integer_overflow,
\* undefined, all_undefined and misc_undefined only on Linux-class systems.
C27_PlatformGated ==
    \A m \in Modules : begun[m] >= 1 => PlatformGated(m)

\* the same for the modules that have not opted out
C27_GatedUnlessNever ==
    \A m \in Modules :
        (begun[m] >= 1 /\ ~Bool(copies[Root(m)].P.Sanitize.Never)) => PlatformGated(m)

(***************************************************************************)
(* Fuzzer and link-time optimisation.                                      *)
(***************************************************************************)

\* sanitize.flags has run on copy k
FlagsComputed(k) ==
    /\ mctx[k[1]].role = "cc"
    /\ ~Fact(mctx[k[1]], "Disabled")
    /\ \/ phase = "make"
       \/ phase = "build" /\ k[1] \in done

\* the flags of copy k turn link-time optimisation off and nowhere on
NoLto(k) ==
    LET fl == copies[k].flags
    IN /\ inList("-fno-lto", fl.CFlags)
       /\ inList("-fno-lto", fl.LdFlags)
       /\ ~inList("-flto", fl.CFlags)
       /\ ~inList("-flto", fl.LdFlags)

\* C28: the flags returned for a module with fuzzer enabled contain -fno-lto
\* and no -flto, in the compile flags and in the link flags, whatever the
\* input flags and the other modes enabled.
C28_FuzzerNoLto ==
    \A k \in DOMAIN copies :
        (FlagsComputed(k) /\ Bool(copies[k].P.Sanitize.Fuzzer)) => NoLto(k)

\* the same for the modules that have not opted out and do not have cfi
\* enabled together with fuzzer
C28_NoLtoUnlessCfiOrNever ==
    \A k \in DOMAIN copies :
        (/\ FlagsComputed(k)
         /\ Bool(copies[k].P.Sanitize.Fuzzer)
         /\ ~Bool(copies[k].P.Sanitize.Cfi)
         /\ ~Bool(copies[k].P.Sanitize.Never)) => NoLto(k)

(***************************************************************************)
(* Object-reuse edges.                                                     *)
(***************************************************************************)

\* the edges of the object-reuse tag from a cc module to a static or header
\* library that has neither opted out nor disabled the mode of the pass
ReuseLinks ==
    {l \in links :
        /\ l.tag = "reuseObj"
        /\ mctx[l.src[1]].role = "cc"
        /\ mctx[l.dst[1]].role = "cc"
        /\ ~BinaryOrShared(mctx[l.dst[1]])
        /\ ~SanitizeNever(copies[l.dst].P)
        /\ ~isSanitizerExplicitlyDisabled(copies[l.dst].P, CurrentMode)}

ModeFields ==
    {"Address", "Hwaddress", "Thread", "Fuzzer", "Safestack", "Cfi",
     "Integer_overflow", "Scudo", "Scs", "Memtag_heap", "Memtag_stack",
     "Undefined", "All_undefined"}

\* the states of begin() from state st on: st, then the state after each of
\* the blocks i..NumBeginSteps (blocks after a return do nothing)
RECURSIVE PruneSteps(_, _, _)
PruneSteps(i, st, c) ==
    IF i > NumBeginSteps THEN <<st>>
    ELSE CHOOSE tr \in {<<st>> \o PruneSteps(i + 1, next, c) :
                           next \in {IF st.returned THEN st ELSE BeginStep(i, st, c)}} : TRUE

\* begin() on the declaration of module m: PruneTrace(m)[i] is the state
\* after block i, for the block before the first pruning block and every
\* pruning block
PruneTrace(m) ==
    LET steps == CHOOSE tr \in
                    {PruneSteps(FirstPruneStep, st, mctx[m]) :
                        st \in {BeginUpTo(FirstPruneStep - 1,
                                          BeginEntry([EmptyProperties EXCEPT !.Sanitize = decl[m]]),
                                          mctx[m])}} : TRUE
    IN [i \in (FirstPruneStep - 1)..NumBeginSteps |-> steps[i - FirstPruneStep + 2]]

\* C31: from the "is CFI enabled" block to the end of begin() no block turns
\* a mode on or adds to misc_undefined: a mode that is not enabled before a
\* block is not enabled after it, and the blocks end in the policy begin()
\* leaves.
C31_PruningNeverEnables ==
    \A m \in Modules :
        begun[m] >= 1 /\ mctx[m].role = "cc" =>
            \A tr \in {PruneTrace(m)} :
               /\ tr[NumBeginSteps].s = firstRun[m].Sanitize
               /\ \A i \in FirstPruneStep..NumBeginSteps :
                     /\ \A f \in ModeFields : Bool(tr[i].s[f]) => Bool(tr[i - 1].s[f])
                     /\ Len(tr[i].s.Misc_undefined) <= Len(tr[i - 1].s.Misc_undefined)

\* begin() has run on a module where one pruning block cleared a mode and a
\* later pruning block whose condition holds left it cleared
C31_Witness ==
    \E m \in Modules :
        /\ begun[m] >= 1
        /\ mctx[m].role = "cc"
        /\ \E tr \in {PruneTrace(m)} :
              \E i \in FirstPruneStep..NumBeginSteps, j \in FirstPruneStep..NumBeginSteps :
                 /\ i < j
                 /\ \E f \in ModeFields :
                       /\ Bool(tr[i - 1].s[f])
                       /\ ~Bool(tr[i].s[f])
                       /\ ~Bool(firstRun[m].Sanitize[f])
                 /\ tr[j].s # tr[j - 1].s

(***************************************************************************)
(* Declared false against the global policy.                               *)
(***************************************************************************)
\* begin() on the declaration of module m, block by block: BeginTrace(m)[i]
\* is the state after block i, BeginTrace(m)[0] the state at entry
BeginTrace(m) ==
    LET steps == PruneSteps(1, BeginEntry([EmptyProperties EXCEPT !.Sanitize = decl[m]]), mctx[m])
    IN [i \in 0..NumBeginSteps |-> steps[i + 1]]

\* the name of the global list that seeds mode field f
GlobalNameOf(f) ==
    CASE f = "All_undefined" -> "undefined"
      [] f = "Undefined" -> "default-ub"
      [] f = "Address" -> "address"
      [] f = "Thread" -> "thread"
      [] f = "Fuzzer" -> "fuzzer"
      [] f = "Safestack" -> "safe-stack"
      [] f = "Cfi" -> "cfi"
      [] f = "Integer_overflow" -> "integer_overflow"
      [] f = "Scudo" -> "scudo"
      [] f = "Hwaddress" -> "hwaddress"
      [] f = "Memtag_heap" -> "memtag_heap"
      [] f = "Memtag_stack" -> "memtag_stack"
      [] OTHER -> "none"

\* the include-path fact that forces mode field f on
EnablePathOf(f) ==
    CASE f = "Cfi" -> {"CFIEnabledForPath"}
      [] f = "Integer_overflow" -> {"IntegerOverflowEnabledForPath"}
      [] f = "Memtag_heap" -> {"MemtagHeapSyncEnabledForPath", "MemtagHeapAsyncEnabledForPath"}
      [] OTHER -> {}

\* C32: a mode the declaration sets to false is not enabled after any block
\* of begin(), whatever the global list, the include paths and the module
\* facts are: it ends false or unset.
C32_DeclaredFalseStaysOff ==
    \A m \in Modules :
        begun[m] >= 1 /\ mctx[m].role = "cc" =>
            \A tr \in {BeginTrace(m)} :
               /\ tr[NumBeginSteps].s = firstRun[m].Sanitize
               /\ \A f \in ModeFields :
                     decl[m][f] = "false" =>
                        \A i \in 0..NumBeginSteps : ~Bool(tr[i].s[f])

\* begin() has run, with the seeding block entered, on a module that declares
\* false a mode the applied global list names
C32_Witness ==
    \E m \in Modules :
        /\ begun[m] >= 1
        /\ mctx[m].role = "cc"
        /\ \E tr \in {BeginTrace(m)}, f \in ModeFields :
              /\ decl[m][f] = "false"
              /\ tr[5].seed
              /\ inList(GlobalNameOf(f), tr[4].gs)
              /\ ~inList(GlobalNameOf(f), tr[6].gs)
              /\ ~Bool(firstRun[m].Sanitize[f])

\* begin() has run on an arm64 device module that declares false a mode its
\* include path forces on
C32_WitnessPath ==
    \E m \in Modules :
        /\ begun[m] >= 1
        /\ mctx[m].role = "cc"
        /\ Arm64(mctx[m]) /\ Bionic(mctx[m]) /\ ~Host(mctx[m])
        /\ \E f \in ModeFields :
              /\ decl[m][f] = "false"
              /\ EnablePathOf(f) \cap mctx[m].facts # {}
              /\ ~Bool(firstRun[m].Sanitize[f])

(***************************************************************************)
(* Binaries as dependencies.                                               *)
(***************************************************************************)
\* the edges just bound to a copy of a cc binary
BinaryLinks ==
    {l \in links : mctx[l.dst[1]].role = "cc" /\ Binary(mctx[l.dst[1]])}

C33_OwnPolicyUnlessNever ==
    JustSplit =>
        \A l \in BinaryLinks :
            ~SanitizeNever(copies[l.dst].P) =>
                (VariationOf(l.dst) = variationName(CurrentMode)
                    <=> isSanitizerEnabled(copies[l.dst].P, CurrentMode))

\* a binary bound against the variant of its dependent, in both directions
C33_BothDirections ==
    /\ JustSplit
    /\ \E l \in BinaryLinks :
          /\ IsSanitizableDependencyTag(l.tag)
          /\ ~SanitizeNever(copies[l.dst].P)
          /\ VariationOf(l.src) # VariationOf(l.dst)

(***************************************************************************)
(* Static libraries of the vendor snapshot.                                *)
(***************************************************************************)
\* the copies of the static, non-prebuilt, non-proprietary cc modules of the
\* vendor partition that have not opted out
SnapshotCandidates ==
    {k \in DOMAIN copies :
        /\ mctx[k[1]].role = "cc"
        /\ static(mctx[k[1]])
        /\ Fact(mctx[k[1]], "InVendor")
        /\ ~Fact(mctx[k[1]], "VendorProprietary")
        /\ ~Fact(mctx[k[1]], "IsPrebuilt")
        /\ ~SanitizeNever(copies[k].P)}

\* the split of the pass in progress gave copy k no sibling: it is the base
\* variant and the only variant
OnlyBase(k) == Made(k) = {""}

C34_DualByResolvedField ==
    JustSplit =>
        \A k \in SnapshotCandidates :
            /\ (CurrentMode = cfi /\ copies[k].P.Sanitize.Cfi = Nil)
                  => Made(k) = {"", variationName(cfi)}
            /\ (CurrentMode = cfi /\ isSanitizerExplicitlyDisabled(copies[k].P, cfi))
                  => OnlyBase(k)
            /\ (/\ CurrentMode # cfi
                /\ ~isSanitizerEnabled(copies[k].P, CurrentMode)
                /\ \A l \in links : ParentOf(l.dst) = ParentOf(k) => VariationOf(l.src) = "")
                  => OnlyBase(k)

\* the cfi pass has split a candidate that declares nothing, under a
\* dependent that asks for nothing, in two, and another pass left a candidate
\* in its base variant
C34_ForcedDual ==
    /\ JustSplit
    /\ CurrentMode = cfi
    /\ \E k \in SnapshotCandidates :
          /\ decl[k[1]] = EmptyUserProps
          /\ \A l \in links : ParentOf(l.dst) = ParentOf(k) => VariationOf(l.src) = ""
          /\ Made(k) = {"", variationName(cfi)}

(***************************************************************************)
(* The modes without a mutator.                                            *)
(***************************************************************************)
FlagOnlyModes == {intOverflow, Memtag_heap, Memtag_stack}

\* the variation names of the six modes that register a transition mutator
SplitVariationNames == {"asan", "hwasan", "tsan", "scs", "fuzzer", "cfi"}

\* the fields the split passes read
SplitFields == {"Never", "Address", "Hwaddress", "Thread", "Scs", "Fuzzer", "Cfi"}

\* properties P with the field of flag-only mode t set to v
WithMode(P, t, v) == [P EXCEPT !.Sanitize[SanitizerField(t)] = v]

\* C35: integer overflow, memtag_heap and memtag_stack register no mutator:
\* no pass runs for them, no copy carries a variation of theirs, and neither
\* the policy begin() resolves for the six split modes nor the variations
\* Split and IncomingTransition give in any pass depend on whether one of the
\* three is enabled, unset or disabled on the module.
C35_FlagOnlyModes ==
    /\ \A t \in FlagOnlyModes : registerMutators(t) = <<>>
    /\ \A k \in DOMAIN copies :
          \A i \in 1..Len(k[2]) : k[2][i] \in SplitVariationNames \cup {""}
    /\ phase # "load" /\ pass > 0 => variationName(CurrentMode) \in SplitVariationNames
    /\ phase = "load" =>
          \A m \in Modules :
              begun[m] = 1 /\ mctx[m].role = "cc" =>
                  \A t \in FlagOnlyModes, v \in {Nil, "true", "false"} :
                      \A r \in {begin(WithMode([EmptyProperties EXCEPT !.Sanitize = decl[m]], t, v),
                                      mctx[m])} :
                          \A f \in SplitFields : r.P.Sanitize[f] = firstRun[m].Sanitize[f]
    /\ JustSplit =>
          \A k \in DOMAIN copies :
              \A t \in FlagOnlyModes, v \in {Nil, "true", "false"} :
                  LET c == mctx[k[1]]
                      cp == copies[k]
                      other == [cp EXCEPT !.P = WithMode(cp.P, t, v)]
                  IN /\ Split(CurrentMode, c, other) = Split(CurrentMode, c, cp)
                     /\ \A inc \in {"", variationName(CurrentMode)} :
                           IncomingTransition(CurrentMode, c, other, inc)
                              = IncomingTransition(CurrentMode, c, cp, inc)

\* all passes are done and a library with integer overflow enabled, bound to
\* a dependent, is still the one copy of its module
C35_Witness ==
    /\ phase = "bottomup" /\ done = Modules /\ pass = Len(TransitionOrder)
    /\ \E l \in links :
          /\ mctx[l.dst[1]].role = "cc"
          /\ isSanitizerEnabled(copies[l.dst].P, intOverflow)
          /\ CopiesOf(l.dst[1]) = {l.dst}
          /\ \A i \in 1..Len(l.dst[2]) : l.dst[2][i] = ""

(***************************************************************************)
(* The form of the edge to the main runtime library.                       *)
(***************************************************************************)
\* the dependencies on a main runtime library the runtime mutator added to
\* copy k
MainRuntimeEdges(k) ==
    {copies[k].runtimeDeps[i] : i \in DOMAIN copies[k].runtimeDeps}
        \cap [lib : MainRuntimes, form : {"static", "shared"}]

\* C36: an edge to the main runtime library is in static form exactly on a
\* static binary and in shared form exactly on a dynamically linked binary or
\* a shared library; a static library and a header library have none, a
\* disabled module has no dependency added at all; and a static binary, a
\* dynamic binary or a shared library on a Bionic or musl toolchain for which
\* a runtime is selected has the edge.
C36_RuntimeEdgeForm ==
    \A k \in DOMAIN copies :
        mctx[k[1]].role = "cc" =>
            LET c == mctx[k[1]]
            IN /\ \A d \in MainRuntimeEdges(k) :
                     /\ d.form = "static" <=> c.kind = "staticBinary"
                     /\ d.form = "shared" <=> c.kind \in {"binary", "shared"}
               /\ c.kind \in {"static", "header"} => MainRuntimeEdges(k) = {}
               /\ Fact(c, "Disabled") => copies[k].runtimeDeps = <<>>
               /\ RuntimeMutated(k) /\ LinksRuntime(k) /\ PriorityMode(k) # ""
                     => MainRuntimeEdges(k) # {}

\* the runtime mutator gave a static binary its main runtime in static form
C36_Witness ==
    \E k \in DOMAIN copies :
        /\ RuntimeMutated(k)
        /\ mctx[k[1]].kind = "staticBinary"
        /\ \E d \in MainRuntimeEdges(k) : d.form = "static"

\* it gave a shared library its main runtime in shared form
C36_WitnessShared ==
    \E k \in DOMAIN copies :
        /\ RuntimeMutated(k)
        /\ mctx[k[1]].kind = "shared"
        /\ \E d \in MainRuntimeEdges(k) : d.form = "shared"

\* it ran past a disabled module that has a mode enabled, and past a static
\* library for which a runtime is selected
C36_WitnessNone ==
    \E k \in DOMAIN copies :
        /\ phase = "runtime" /\ k[1] \in done
        /\ mctx[k[1]].role = "cc"
        /\ PriorityMode(k) # ""
        /\ (Fact(mctx[k[1]], "Disabled") \/ mctx[k[1]].kind = "static")
        /\ copies[k].runtimeDeps = <<>>

(***************************************************************************)
(* The diagnostic form of a mode.                                          *)
(***************************************************************************)
\* the modes that have a diagnostic flag of their own, with that flag
DiagPairs ==
    {<<"Cfi", "Diag_Cfi">>, <<"Integer_overflow", "Diag_Integer_overflow">>,
     <<"Memtag_heap", "Diag_Memtag_heap">>}

\* C37: after begin() the diagnostic flag of cfi, integer_overflow and
\* memtag_heap is set only if the mode itself is enabled.
C37_DiagOnlyIfEnabled ==
    \A m \in Modules :
        begun[m] >= 1 /\ mctx[m].role = "cc" =>
            \A pr \in DiagPairs : Bool(Resolved(m)[pr[2]]) => Bool(Resolved(m)[pr[1]])

(***************************************************************************)
(* Mutual exclusion on the copies the passes leave.                        *)
(***************************************************************************)
\* every pass has split and mutated every module
AllPassesDone ==
    /\ pass = Len(TransitionOrder)
    /\ \/ phase = "bottomup" /\ done = Modules
       \/ phase \in {"runtimeDeps", "runtime", "build", "make"}

\* the pairs of modes no copy may have enabled together
ExcludedPairs ==
    {<<"Address", "Hwaddress">>, <<"Cfi", "Address">>, <<"Cfi", "Hwaddress">>,
     <<"Cfi", "Fuzzer">>}

\* C38: once every pass is done, no copy of a cc module has address and
\* hwaddress both enabled, or cfi enabled together with address, hwaddress or
\* fuzzer.
C38_CopiesExclusive ==
    AllPassesDone =>
        \A k \in DOMAIN copies :
            mctx[k[1]].role = "cc" =>
                \A pr \in ExcludedPairs :
                    ~(Bool(copies[k].P.Sanitize[pr[1]]) /\ Bool(copies[k].P.Sanitize[pr[2]]))

(***************************************************************************)
(* Modes declared false.                                                   *)
(***************************************************************************)
\* no copy of module m is in the variation of mode t or has t enabled
NeverBuiltWith(m, t) ==
    \A k \in CopiesOf(m) :
        /\ ~isSanitizerEnabled(copies[k].P, t)
        /\ \A i \in 1..Len(k[2]) : TransitionOrder[i] = t => k[2][i] = ""

\* C39: a module that declares a mode false has, after begin() and through
\* all passes, no copy in the variation of that mode and no copy with the
\* mode enabled, whatever its dependents ask for.
C39_DeclaredFalseNeverBuilt ==
    \A m \in Modules :
        begun[m] >= 1 /\ mctx[m].role = "cc" =>
            \A t \in SanitizerTypes :
                decl[m][SanitizerField(t)] = "false" => NeverBuiltWith(m, t)

\* the same for the modes that are still false when begin() returns
C39_ResolvedFalseNeverBuilt ==
    \A m \in Modules :
        begun[m] >= 1 /\ mctx[m].role = "cc" =>
            \A t \in SanitizerTypes :
                firstRun[m].Sanitize[SanitizerField(t)] = "false" => NeverBuiltWith(m, t)

(***************************************************************************)
(* The frame of flags() and of SanitizerEnabled.                           *)
(***************************************************************************)
\* copy k has neither SanitizerEnabled nor UbsanRuntimeDep set
NotSanitized(k) ==
    ~copies[k].P.SanitizerEnabled /\ ~copies[k].P.UbsanRuntimeDep

\* on the copies with neither flag set, flags() gives back every input flag
\* set as it is, and the flags the build actions recorded are an input set
FlagsUntouched ==
    \A k \in DOMAIN copies :
        mctx[k[1]].role = "cc" /\ NotSanitized(k) =>
            /\ \A fl \in InputFlags : flags(mctx[k[1]], copies[k].P, fl) = fl
            /\ FlagsComputed(k) => copies[k].flags \in InputFlags

\* a step keeps SanitizerEnabled on every copy that has it, and gives it to
\* the copies split from a copy that has it
EnabledKept ==
    \A k \in DOMAIN copies' :
        LET from == IF k \in DOMAIN copies THEN k ELSE ParentOf(k)
        IN (from \in DOMAIN copies /\ copies[from].P.SanitizerEnabled)
              => copies'[k].P.SanitizerEnabled

\* C40: flags() returns its input unchanged for a module that has neither
\* SanitizerEnabled nor UbsanRuntimeDep set, and no step of the transform
\* resets SanitizerEnabled once begin() or SetSanitizer(t, true) has set it.
C40_FlagsFrame == [](FlagsUntouched) /\ [][EnabledKept]_vars

\* the build actions ran on a copy with a mode left enabled by the opt-out
\* and neither flag set, which came with flags and kept them as they were
C40_Witness ==
    \E k \in DOMAIN copies :
        /\ FlagsComputed(k)
        /\ NotSanitized(k)
        /\ \E t \in SanitizerTypes : isSanitizerEnabled(copies[k].P, t)
        /\ copies[k].flags # NoFlags
        /\ copies[k].flags \in InputFlags

\* SetSanitizer(t, false) ran on a copy that has SanitizerEnabled and left it
\* set: the base variant of a static library that asked for the mode
C40_WitnessKept ==
    \E k \in DOMAIN copies :
        /\ mctx[k[1]].role = "cc"
        /\ \E i \in 1..Len(k[2]) :
              /\ i \in MutatedPasses(k[1])
              /\ k[2][i] = ""
              /\ decl[k[1]][SanitizerField(TransitionOrder[i])] = "true"
              /\ ~isSanitizerEnabled(copies[k].P, TransitionOrder[i])
        /\ ~SanitizeNever(copies[k].P)
        /\ copies[k].P.SanitizerEnabled

====
